---------------------------- MODULE Spec2Model ----------------------------
(***************************************************************************)
(* nvidiot: the NVAPI DRS core (src-tauri/src/nvapi).  The model is a      *)
(* small-step machine: every thread runs one command at a time as a stack  *)
(* of frames, one frame per Rust function, and advances one code step per  *)
(* action.  The native backend (nvapi64.dll) is the environment: an        *)
(* in-memory registry, a persisted registry, and status codes that may     *)
(* report a failure at any call.                                           *)
(***************************************************************************)
EXTENDS Integers, Sequences, FiniteSets, TLC

VARIABLES
    nvapi,      \* ffi.rs NVAPI: the OnceCell holding Result<NvApi, NvApiError>
    session,    \* session.rs DRS_SESSION: the OnceCell holding the session handle
    lock,       \* the Mutex inside DRS_SESSION: 0 when free, else the holder
    alive,      \* backend: session handles created and not destroyed
    nextHandle, \* backend: the next session handle it hands out
    mem,        \* backend: the in-memory registry of the loaded session
    disk,       \* backend: the persisted registry
    loads,      \* backend: how often the native library was loaded
    inits,      \* backend: how often Initialize was invoked
    short,      \* backend: the counts below the requested one that it may return
                \* from EnumApplications while applications remain
    stack,      \* per thread: the frames of the running command, top first
    ret,        \* per thread: the value the last returning function returned
    inflight,   \* per thread: the backend entry point it is executing, or NoCall
    log,        \* per thread: the backend calls of the current command, in order
    ops,        \* per thread: the commands it has invoked, where they are counted
    cur,        \* per thread: the current (or last finished) command
    pre,        \* per thread: registry snapshot taken when the command was invoked
    prev,       \* per thread: the blacklist or unblacklist it completed with
                \* success = true just before the current command, if any
    visits,     \* per thread: what the current command got for each profile it
                \* visited, in order
    past        \* per thread: the latest commands it completed and what they
                \* returned, newest first, where they are recorded

vars == <<nvapi, session, lock, alive, nextHandle, mem, disk, loads, inits,
          short, stack, ret, inflight, log, ops, cur, pre, prev, visits, past>>

---------------------------------------------------------------------------
(* Bounds of the model *)

NumThreads == 2
MaxSessions == 2
\* Commands per thread when commands run concurrently.
MaxCommands == 1
\* The longest string and the largest buffer the conversions are applied to.
MaxLen == 3
MaxCap == 4
\* How many completed calls of a round trip are recorded.
RoundTripDepth == 2
\* How many calls of one command the backend fails.
MaxFaults == 1
\* The longest of the short pages of a backend that returns short pages.
MaxShort == 2

Threads == 1..NumThreads

---------------------------------------------------------------------------
(* Program constants *)

NVAPI_OK == 0
NVAPI_ERROR == -1
NVAPI_END_ENUMERATION == -7
NVAPI_INVALID_HANDLE == -8
NVAPI_PROFILE_NOT_FOUND == -175
NVAPI_PROFILE_NAME_IN_USE == -176
NVAPI_SETTING_NOT_FOUND == -179
NVAPI_EXECUTABLE_NOT_FOUND == -183
NVAPI_EXECUTABLE_ALREADY_IN_USE == -184

NVAPI_UNICODE_STRING_MAX == 2048

\* let mut count: u32 = 32, the length of the batch array
BatchSize == 32

\* u32::MAX.  A u32 is kept as the 32-bit integer of the same bits.
U32_MAX == -1

SHADOWPLAY_SETTING_ID == "0x809D5F60"
SHADOWPLAY_DISABLED == 268435456
SHADOWPLAY_ENABLED == 134217729

\* A value of the feature toggle that is neither sentinel.
OtherValue == 0

---------------------------------------------------------------------------
(* Strings and wide-character buffers (ffi.rs).  A string is a TLA+ string  *)
(* and a UTF-16 unit is a one-character string.  Three characters stand for *)
(* what a TLA+ string cannot hold: "\f" for U+0000, whose unit is the 0     *)
(* unit, and "\t" for a character above U+FFFF, which encodes as the pair   *)
(* of units "\r" (high surrogate) and "\n" (low surrogate).  A buffer       *)
(* [u16; cap] is its capacity and its leading units: the units after `data` *)
(* are 0, as in a zero-initialised array.                                   *)

NUL == "\f"
Astral == "\t"
HighSurrogate == "\r"
LowSurrogate == "\n"
\* U+FFFD, which from_utf16_lossy puts where a surrogate has no partner.
REPLACEMENT_CHARACTER == "?"

Min(a, b) == IF a < b THEN a ELSE b
Max(a, b) == IF a < b THEN b ELSE a

\* str::encode_utf16: one unit per character, two for a character above U+FFFF.
RECURSIVE encode_utf16(_)
encode_utf16(s) ==
    IF Len(s) = 0 THEN <<>>
    ELSE LET c == SubSeq(s, 1, 1)
         IN  (IF c = Astral THEN <<HighSurrogate, LowSurrogate>> ELSE <<c>>)
                 \o encode_utf16(SubSeq(s, 2, Len(s)))

\* String::from_utf16_lossy: a surrogate pair decodes to its character, a
\* surrogate without its partner to U+FFFD.
RECURSIVE from_utf16_lossy(_)
from_utf16_lossy(units) ==
    IF units = <<>> THEN ""
    ELSE IF Len(units) >= 2 /\ units[1] = HighSurrogate /\ units[2] = LowSurrogate
    THEN Astral \o from_utf16_lossy(Tail(Tail(units)))
    ELSE IF Head(units) \in {HighSurrogate, LowSurrogate}
    THEN REPLACEMENT_CHARACTER \o from_utf16_lossy(Tail(units))
    ELSE Head(units) \o from_utf16_lossy(Tail(units))

ZeroBuffer(cap) == [cap |-> cap, data |-> <<>>]

\* string_to_wchar that leaves out the last unit it has room for.
string_to_wchar_short(s, buffer) ==
    LET chars == encode_utf16(s)
        len == Min(Len(chars), buffer.cap - 1) - 1
    IN  [cap |-> buffer.cap,
         data |-> [i \in 1..Max(len + 1, Len(buffer.data)) |->
                     IF i <= len THEN chars[i]
                     ELSE IF i = len + 1 THEN NUL
                     ELSE buffer.data[i]]]

\* buffer[..len] = chars[..len]; buffer[len] = 0
string_to_wchar(s, buffer) ==
    LET chars == encode_utf16(s)
        len == Min(Len(chars), buffer.cap - 1)
    IN  [cap |-> buffer.cap,
         data |-> [i \in 1..Max(len + 1, Len(buffer.data)) |->
                     IF i <= len THEN chars[i]
                     ELSE IF i = len + 1 THEN NUL
                     ELSE buffer.data[i]]]

\* wchar_to_string that reads the units the buffer holds, terminator or not.
wchar_to_string_whole(buffer) ==
    from_utf16_lossy(SelectSeq(buffer.data, LAMBDA u : u # NUL))

\* the units before the first 0 unit (all of them when there is none)
wchar_to_string(buffer) ==
    LET zeros == {i \in 1..Len(buffer.data) : buffer.data[i] = NUL}
        end == IF zeros # {} THEN CHOOSE i \in zeros : \A j \in zeros : i <= j
               ELSE IF Len(buffer.data) < buffer.cap THEN Len(buffer.data) + 1
               ELSE buffer.cap + 1
    IN  from_utf16_lossy(SubSeq(buffer.data, 1, end - 1))

\* What the backend reads from a [0u16; 2048] buffer the code filled with s.
WideName(s) ==
    wchar_to_string(string_to_wchar(s, ZeroBuffer(NVAPI_UNICODE_STRING_MAX)))

\* a < b for two u32.
LessU32(a, b) == IF (a < 0) = (b < 0) THEN a < b ELSE b < 0

\* Whether `sub` occurs in `s` (str::contains).
Contains(s, sub) ==
    \E i \in 1..(Len(s) - Len(sub) + 1) : SubSeq(s, i, i + Len(sub) - 1) = sub

---------------------------------------------------------------------------
(* Errors and results (error.rs, types.rs) *)

NoCall == "none"
NullHandle == "null"
Unit == "()"

\* NvApiError: the variant, its i32 code (0 when it has none) and its String
\* ("" when it has none).
NvApiError(kind, code, name) == [kind |-> kind, code |-> code, name |-> name]

Ok(v) == [ok |-> TRUE, val |-> v]
Err(e) == [ok |-> FALSE, err |-> e]
NoResult == [ok |-> FALSE, err |-> NvApiError("none", 0, "")]

\* IsErr that takes every error for the one it looks for: Err(_) =>
IsErrAny(r, kind) == ~r.ok

IsErr(r, kind) == ~r.ok /\ r.err.kind = kind

DrsProfile(name, is_predefined, application_count) ==
    [name |-> name, is_predefined |-> is_predefined,
     application_count |-> application_count]

DrsApplication(name, executable, profile_name, is_predefined, is_blacklisted) ==
    [name |-> name, executable |-> executable, profile_name |-> profile_name,
     is_predefined |-> is_predefined, is_blacklisted |-> is_blacklisted]

BlacklistResult(success, executable, message) ==
    [success |-> success, executable |-> executable, message |-> message]

---------------------------------------------------------------------------
(* The native backend: the registry behind the entry points that          *)
(* nvapi_QueryInterface hands out (ffi.rs, the function pointer types).    *)
(* A registry is a sequence of profiles; a profile handle is the profile's *)
(* name; each entry point reports its nominal status or, at any call, the  *)
(* generic NVAPI_ERROR.                                                    *)

EntryPoints ==
    {"Initialize", "CreateSession", "DestroySession", "LoadSettings",
     "SaveSettings", "EnumProfiles", "GetProfileInfo", "FindProfileByName",
     "CreateProfile", "EnumApplications", "FindApplicationByName",
     "CreateApplication", "GetSetting", "SetSetting"}

\* Every entry point is kept as an Option: any of them may be missing.
Optional == EntryPoints

\* The function tables nvapi_QueryInterface can produce: every entry point
\* resolved, or one of them missing in the installed driver.
ResolvedChoices == {EntryPoints} \cup {EntryPoints \ {f} : f \in Optional}

Profile(name, predefined, apps, settings) ==
    [name |-> name, is_predefined |-> predefined, apps |-> apps,
     settings |-> settings]

Application(app_name, friendly, predefined) ==
    [app_name |-> app_name, user_friendly_name |-> friendly,
     is_predefined |-> predefined]

ProfileNames(reg) == {reg[i].name : i \in 1..Len(reg)}

ProfileAt(reg, h) == CHOOSE i \in 1..Len(reg) : reg[i].name = h

AppNames(p) == {p.apps[k].app_name : k \in 1..Len(p.apps)}

HasApplication(reg, exe) == \E i \in 1..Len(reg) : exe \in AppNames(reg[i])

\* The profile an executable is bound to (the first, in registry order).
ProfileOfApp(reg, exe) ==
    LET i == CHOOSE i \in 1..Len(reg) :
                 /\ exe \in AppNames(reg[i])
                 /\ \A j \in 1..(i - 1) : exe \notin AppNames(reg[j])
    IN  reg[i].name

\* The application record of an executable.
AppOf(reg, exe) ==
    LET p == reg[ProfileAt(reg, ProfileOfApp(reg, exe))]
    IN  p.apps[CHOOSE k \in 1..Len(p.apps) : p.apps[k].app_name = exe]

SettingOf(reg, h, id) ==
    LET s == reg[ProfileAt(reg, h)].settings
    IN  IF \E x \in s : x[1] = id THEN (CHOOSE x \in s : x[1] = id)[2] ELSE -1

HasSetting(reg, h, id) ==
    /\ h \in ProfileNames(reg)
    /\ \E x \in reg[ProfileAt(reg, h)].settings : x[1] = id

\* A failing call that also drops what the session has not saved.
FaultRollsBack(reg) == [status |-> NVAPI_ERROR, reg |-> disk, handle |-> NullHandle, value |-> 0]

\* A failing call: NVAPI_ERROR, and the registry as it was.
Fault(reg) == [status |-> NVAPI_ERROR, reg |-> reg, handle |-> NullHandle, value |-> 0]

DrsFindApplicationByName(reg, name) ==
    IF HasApplication(reg, name)
    THEN [status |-> NVAPI_OK, reg |-> reg, handle |-> ProfileOfApp(reg, name),
          value |-> AppOf(reg, name)]
    ELSE [status |-> NVAPI_EXECUTABLE_NOT_FOUND, reg |-> reg, handle |-> NullHandle, value |-> 0]

DrsFindProfileByName(reg, name) ==
    IF name \in ProfileNames(reg)
    THEN [status |-> NVAPI_OK, reg |-> reg, handle |-> name, value |-> 0]
    ELSE [status |-> NVAPI_PROFILE_NOT_FOUND, reg |-> reg, handle |-> NullHandle, value |-> 0]

DrsCreateProfile(reg, name) ==
    IF name \in ProfileNames(reg)
    THEN [status |-> NVAPI_PROFILE_NAME_IN_USE, reg |-> reg, handle |-> NullHandle, value |-> 0]
    ELSE [status |-> NVAPI_OK, reg |-> Append(reg, Profile(name, FALSE, <<>>, {})),
          handle |-> name, value |-> 0]

DrsCreateApplication(reg, h, app_name, friendly) ==
    IF h \notin ProfileNames(reg)
    THEN [status |-> NVAPI_INVALID_HANDLE, reg |-> reg, handle |-> NullHandle, value |-> 0]
    ELSE IF HasApplication(reg, app_name)
    THEN [status |-> NVAPI_EXECUTABLE_ALREADY_IN_USE, reg |-> reg, handle |-> NullHandle, value |-> 0]
    ELSE [status |-> NVAPI_OK,
          reg |-> [reg EXCEPT ![ProfileAt(reg, h)].apps =
                      Append(@, Application(app_name, friendly, FALSE))],
          handle |-> h, value |-> 0]

DrsGetSetting(reg, h, id) ==
    IF h \notin ProfileNames(reg)
    THEN [status |-> NVAPI_INVALID_HANDLE, reg |-> reg, handle |-> NullHandle, value |-> 0]
    ELSE IF ~HasSetting(reg, h, id)
    THEN [status |-> NVAPI_SETTING_NOT_FOUND, reg |-> reg, handle |-> h, value |-> 0]
    ELSE [status |-> NVAPI_OK, reg |-> reg, handle |-> h, value |-> SettingOf(reg, h, id)]

DrsSetSetting(reg, h, id, value) ==
    IF h \notin ProfileNames(reg)
    THEN [status |-> NVAPI_INVALID_HANDLE, reg |-> reg, handle |-> NullHandle, value |-> 0]
    ELSE [status |-> NVAPI_OK,
          reg |-> [reg EXCEPT ![ProfileAt(reg, h)].settings =
                      {x \in @ : x[1] # id} \cup {<<id, value>>}],
          handle |-> h, value |-> value]

DrsEnumProfiles(reg, index) ==
    IF index < Len(reg)
    THEN [status |-> NVAPI_OK, reg |-> reg, handle |-> reg[index + 1].name, value |-> 0]
    ELSE [status |-> NVAPI_END_ENUMERATION, reg |-> reg, handle |-> NullHandle, value |-> 0]

\* The NvdrsProfile the backend fills in: the name as a wide-character buffer.
DrsGetProfileInfo(reg, h) ==
    IF h \notin ProfileNames(reg)
    THEN [status |-> NVAPI_INVALID_HANDLE, reg |-> reg, handle |-> NullHandle, value |-> 0]
    ELSE LET p == reg[ProfileAt(reg, h)]
         IN  [status |-> NVAPI_OK, reg |-> reg, handle |-> h,
              value |-> [profile_name |->
                             string_to_wchar(p.name, ZeroBuffer(NVAPI_UNICODE_STRING_MAX)),
                         is_predefined |-> IF p.is_predefined THEN 1 ELSE 0,
                         num_of_apps |-> Len(p.apps)]]

\* Up to `count` applications of profile h from start_index on, and how many.
DrsEnumApplications(reg, h, start_index, count) ==
    IF h \notin ProfileNames(reg)
    THEN [status |-> NVAPI_INVALID_HANDLE, reg |-> reg, handle |-> NullHandle, value |-> 0]
    ELSE LET apps == reg[ProfileAt(reg, h)].apps
             last == Min(start_index + count, Len(apps))
         IN  IF start_index >= Len(apps)
             THEN [status |-> NVAPI_END_ENUMERATION, reg |-> reg, handle |-> h,
                   value |-> [count |-> 0, apps |-> <<>>]]
             ELSE [status |-> NVAPI_OK, reg |-> reg, handle |-> h,
                   value |-> [count |-> last - start_index,
                              apps |-> SubSeq(apps, start_index + 1, last)]]

\* The most applications one EnumApplications call returns: the count the
\* caller asked for, or one of the shorter pages of this backend.
PageLimits == {BatchSize} \cup short

\* How many calls of the command of t the backend answered with NVAPI_ERROR.
Faults(t) == Cardinality({i \in 1..Len(log[t]) : log[t][i].status = NVAPI_ERROR})

\* What a call can answer: its nominal outcome, or a failure that changes
\* nothing; the backend fails at most MaxFaults calls of one command.
Outcomes(t, nominal, reg) ==
    IF Faults(t) < MaxFaults THEN {nominal, Fault(reg)} ELSE {nominal}

---------------------------------------------------------------------------
(* Threads, frames and commands *)

Executables == {"game.exe", "app.exe"}

\* The registry the driver ships: one profile P holding app.exe, whose feature
\* toggle is absent or holds a value that is neither sentinel.
InitialRegistry(settings) ==
    <<Profile("P", TRUE, <<Application("app.exe", "App", TRUE)>>, settings)>>

InitialSettings == {{}, {<<SHADOWPLAY_SETTING_ID, OtherValue>>}}

NoRegistry == <<>>

Command(name, exe, pname, h) == [name |-> name, exe |-> exe, pname |-> pname, h |-> h]

NoCommand == Command("none", "", "", NullHandle)

\* The operations a caller (lib.rs, the windows module) can start.
Commands ==
    {Command("blacklist_application", e, "", NullHandle) : e \in Executables}
    \cup {Command("unblacklist_application", e, "", NullHandle) : e \in Executables}
    \cup {Command("create_profile_for_executable", e, "Q", NullHandle) : e \in Executables}
    \cup {Command("get_shadowplay_status", "", "", h) : h \in {"P", "Nvidiot - game.exe"}}
    \cup {Command("reload_settings", "", "", NullHandle),
          Command("check_nvapi", "", "", NullHandle),
          Command("get_session", "", "", NullHandle)}

\* Where a function that needs the session goes once it holds the function
\* table.  A OnceCell that is set never changes again, so reading a set cell is
\* folded into the step before it.
SessionPc == IF session.state = "done" THEN "lock" ELSE "get_session"

\* The first label of a function: the commands that only call other functions
\* start at "start", get_session at its cell, every other function at get_nvapi()?.
FirstPc(fn) ==
    IF fn \in {"blacklist_application", "unblacklist_application",
               "create_profile_for_executable", "get_shadowplay_status", "load",
               "get_all_applications", "string_to_wchar"}
    THEN "start"
    ELSE IF fn = "get_session" THEN SessionPc
    ELSE IF nvapi.state = "done" /\ nvapi.value.ok /\ fn \notin {"check_nvapi", "create_session"}
    THEN SessionPc
    ELSE "get_nvapi"

Frame(fn, exe, name, h, value) ==
    [fn |-> fn, pc |-> FirstPc(fn), exe |-> exe, name |-> name, h |-> h,
     id |-> SHADOWPLAY_SETTING_ID, value |-> value, sess |-> 0, status |-> 0,
     api |-> {}, buffer |-> ZeroBuffer(NVAPI_UNICODE_STRING_MAX),
     index |-> 0, num |-> 0, count |-> 0, page |-> <<>>, i |-> 0,
     items |-> <<>>, profiles |-> <<>>]

Top(t) == Head(stack[t])

Running(t) == stack[t] # <<>>

At(t, fn, pc) == Running(t) /\ Top(t).fn = fn /\ Top(t).pc = pc

\* The command of t has returned.
Done(t) == stack[t] = <<>> /\ cur[t].name # "none"

SetTop(t, f) == stack' = [stack EXCEPT ![t] = <<f>> \o Tail(@)]

Goto(t, pc) == SetTop(t, [Top(t) EXCEPT !.pc = pc])

\* Call f from the top frame, which resumes at pc.
Push(t, pc, f) ==
    stack' = [stack EXCEPT ![t] = <<f, [Top(t) EXCEPT !.pc = pc]>> \o Tail(@)]

\* The top frame returns r to its caller.
Return(t, r) ==
    /\ stack' = [stack EXCEPT ![t] = Tail(@)]
    /\ ret' = [ret EXCEPT ![t] = r]

Logged(t, entry, status) ==
    log' = [log EXCEPT ![t] = Append(@, [entry |-> entry, status |-> status])]

Begin(t, entry) == inflight' = [inflight EXCEPT ![t] = entry]

End(t) == inflight' = [inflight EXCEPT ![t] = NoCall]

cells == <<nvapi, session, lock>>
backend == <<alive, nextHandle, mem, disk, loads, inits, short>>
history == <<ops, cur, pre, prev, visits, past>>

\* Nothing is loaded: both cells are empty and the backend holds no session.
Unloaded ==
    /\ nvapi = [state |-> "uninit", value |-> NoResult]
    /\ session = [state |-> "uninit", handle |-> 0]
    /\ lock = 0
    /\ alive = {}
    /\ nextHandle = 1
    /\ mem = NoRegistry
    /\ loads = 0
    /\ inits = 0

\* No thread has invoked anything yet.
Quiet ==
    /\ ret = [t \in Threads |-> NoResult]
    /\ inflight = [t \in Threads |-> NoCall]
    /\ log = [t \in Threads |-> <<>>]
    /\ ops = [t \in Threads |-> 0]
    /\ cur = [t \in Threads |-> NoCommand]
    /\ pre = [t \in Threads |-> [mem |-> NoRegistry, disk |-> NoRegistry, loaded |-> FALSE]]
    /\ prev = [t \in Threads |-> NoCommand]
    /\ visits = [t \in Threads |-> <<>>]
    /\ past = [t \in Threads |-> <<>>]

Init ==
    /\ Unloaded
    /\ short = {}
    /\ \E s \in InitialSettings : disk = InitialRegistry(s)
    /\ stack = [t \in Threads |-> <<>>]
    /\ Quiet

\* The command of t was a blacklist or unblacklist that returned success = true.
Succeeded(t) ==
    /\ cur[t].name \in {"blacklist_application", "unblacklist_application"}
    /\ ret[t].ok
    /\ ret[t].val.success

\* lib.rs: a command is dispatched to the function of its name.  A thread invokes
\* at most `limit` commands; no limit when it is 0.
Invoke(t, limit) ==
    /\ ~Running(t)
    /\ limit > 0 => ops[t] < limit
    /\ ops' = [ops EXCEPT ![t] = IF limit > 0 THEN @ + 1 ELSE @]
    /\ \E c \in Commands :
        /\ cur' = [cur EXCEPT ![t] = c]
        /\ stack' = [stack EXCEPT ![t] = <<Frame(c.name, c.exe, c.pname, c.h, 0)>>]
    /\ prev' = [prev EXCEPT ![t] = IF Succeeded(t) THEN cur[t] ELSE NoCommand]
    /\ pre' = [pre EXCEPT ![t] = [mem |-> mem, disk |-> disk,
                                  loaded |-> session.state = "done"]]
    /\ ret' = [ret EXCEPT ![t] = NoResult]
    /\ log' = [log EXCEPT ![t] = <<>>]
    /\ visits' = [visits EXCEPT ![t] = <<>>]
    /\ UNCHANGED <<cells, backend, inflight, past>>

\* The first n elements of a sequence.
Take(seq, n) == SubSeq(seq, 1, Min(n, Len(seq)))

\* The activation a command starts with.  A direct set_dword_setting writes the
\* disabled sentinel to the feature toggle.
FrameOf(c) ==
    IF c.name = "set_dword_setting"
    THEN Frame("set_dword_setting", "", "", c.h, SHADOWPLAY_DISABLED)
    ELSE Frame(c.name, c.exe, c.pname, c.h, 0)

\* A caller inside the crate calls one of `commands`, each call returning
\* before the next; the latest `depth` completed calls are recorded.
Call(t, commands, depth) ==
    /\ ~Running(t)
    /\ \E c \in commands :
        /\ cur' = [cur EXCEPT ![t] = c]
        /\ stack' = [stack EXCEPT ![t] = <<FrameOf(c)>>]
    /\ past' = [past EXCEPT ![t] =
                   IF cur[t] = NoCommand THEN @
                   ELSE Take(<<[command |-> cur[t], result |-> ret[t]]>> \o @, depth)]
    /\ pre' = [pre EXCEPT ![t] = [mem |-> mem, disk |-> disk,
                                  loaded |-> session.state = "done"]]
    /\ ret' = [ret EXCEPT ![t] = NoResult]
    /\ log' = [log EXCEPT ![t] = <<>>]
    /\ visits' = [visits EXCEPT ![t] = <<>>]
    /\ UNCHANGED <<cells, backend, inflight, ops, prev>>

---------------------------------------------------------------------------
(* ffi.rs: the function table *)

\* What get_nvapi hands its caller once the cell is set: the table, or
\* InitializationFailed with the code of the cached error (-1 when it has none).
NvapiResult ==
    IF nvapi.value.ok THEN nvapi.value
    ELSE Err(NvApiError("InitializationFailed",
                        IF nvapi.value.err.kind = "InitializationFailed"
                        THEN nvapi.value.err.code ELSE -1, ""))

\* The table of a frame that got past get_nvapi()?.
Api == nvapi.value.val

\* CreateSessionReturns that hands the handle out and leaves the cell empty.
CreateSessionReturnsUncached(t, r) ==
    IF r.ok
    THEN /\ session' = [state |-> "uninit", handle |-> r.val]
         /\ stack' = [stack EXCEPT ![t] =
                         <<[@[2] EXCEPT !.pc = "lock"]>> \o Tail(Tail(@))]
         /\ UNCHANGED ret
    ELSE /\ session' = [state |-> "uninit", handle |-> 0]
         /\ stack' = [stack EXCEPT ![t] = Tail(Tail(@))]
         /\ ret' = [ret EXCEPT ![t] = r]

\* CreateSessionReturns that fills the cell whatever create_session returned, as
\* the cell of the function table does.
CreateSessionReturnsCached(t, r) ==
    IF r.ok
    THEN /\ session' = [state |-> "done", handle |-> r.val]
         /\ stack' = [stack EXCEPT ![t] =
                         <<[@[2] EXCEPT !.pc = "lock"]>> \o Tail(Tail(@))]
         /\ UNCHANGED ret
    ELSE /\ session' = [state |-> "done", handle |-> 0]
         /\ stack' = [stack EXCEPT ![t] = Tail(Tail(@))]
         /\ ret' = [ret EXCEPT ![t] = r]

\* create_session returns r inside DRS_SESSION.get_or_try_init: Ok fills the cell
\* and get_session goes on to lock it; Err leaves the cell empty and `?` returns
\* the error from the function that called get_session.
CreateSessionReturns(t, r) ==
    IF r.ok
    THEN /\ session' = [state |-> "done", handle |-> r.val]
         /\ stack' = [stack EXCEPT ![t] =
                         <<[@[2] EXCEPT !.pc = "lock"]>> \o Tail(Tail(@))]
         /\ UNCHANGED ret
    ELSE /\ session' = [state |-> "uninit", handle |-> 0]
         /\ stack' = [stack EXCEPT ![t] = Tail(Tail(@))]
         /\ ret' = [ret EXCEPT ![t] = r]

\* get_nvapi whose callers do not wait for a load that is under way: each of
\* them runs the load.
get_nvapi_racy(t) ==
    /\ Running(t) /\ Top(t).pc = "get_nvapi"
    /\ \/ /\ nvapi.state \in {"uninit", "running"}
          /\ nvapi' = [nvapi EXCEPT !.state = "running"]
          /\ Push(t, "get_nvapi", Frame("load", "", "", NullHandle, 0))
          /\ UNCHANGED <<session, ret>>
       \/ /\ nvapi.state = "done" /\ NvapiResult.ok
          /\ IF Top(t).fn = "check_nvapi"
             THEN Return(t, Ok(Unit))
             ELSE /\ Goto(t, IF Top(t).fn = "create_session" THEN "call" ELSE SessionPc)
                  /\ UNCHANGED ret
          /\ UNCHANGED <<nvapi, session>>
       \/ /\ nvapi.state = "done" /\ ~NvapiResult.ok
          /\ IF Top(t).fn = "create_session"
             THEN CreateSessionReturns(t, NvapiResult)
             ELSE Return(t, NvapiResult) /\ UNCHANGED session
          /\ UNCHANGED nvapi
    /\ UNCHANGED <<lock, backend, inflight, log, history>>

\* get_nvapi()?: NVAPI.get_or_init(NvApi::load).  The first caller runs the load,
\* a caller that arrives meanwhile waits, every later caller reads the cell.
get_nvapi(t) ==
    /\ Running(t) /\ Top(t).pc = "get_nvapi"
    /\ \/ /\ nvapi.state = "uninit"
          /\ nvapi' = [nvapi EXCEPT !.state = "running"]
          /\ Push(t, "get_nvapi", Frame("load", "", "", NullHandle, 0))
          /\ UNCHANGED <<session, ret>>
       \/ /\ nvapi.state = "done" /\ NvapiResult.ok
          /\ IF Top(t).fn = "check_nvapi"
             THEN Return(t, Ok(Unit))
             ELSE /\ Goto(t, IF Top(t).fn = "create_session" THEN "call" ELSE SessionPc)
                  /\ UNCHANGED ret
          /\ UNCHANGED <<nvapi, session>>
       \/ /\ nvapi.state = "done" /\ ~NvapiResult.ok
          /\ IF Top(t).fn = "create_session"
             THEN CreateSessionReturns(t, NvapiResult)
             ELSE Return(t, NvapiResult) /\ UNCHANGED session
          /\ UNCHANGED nvapi
    /\ UNCHANGED <<lock, backend, inflight, log, history>>

\* LoadReturns that keeps a success only: a failure leaves the cell empty.
LoadReturnsUncached(t, r) ==
    /\ nvapi' = IF r.ok THEN [state |-> "done", value |-> r]
                ELSE [state |-> "uninit", value |-> r]
    /\ stack' = [stack EXCEPT ![t] = Tail(@)]

\* The load finished with r: the cell keeps it, success or failure.
LoadReturns(t, r) ==
    /\ nvapi' = [state |-> "done", value |-> r]
    /\ stack' = [stack EXCEPT ![t] = Tail(@)]

\* NvApi::load: load nvapi64.dll, look up nvapi_QueryInterface, resolve the entry
\* points, invoke Initialize.
load(t) ==
    /\ Running(t) /\ Top(t).fn = "load"
    /\ \/ /\ Top(t).pc = "start"
          /\ loads' = loads + 1
          /\ \/ LoadReturns(t, Err(NvApiError("LibraryNotFound", 0, "")))
             \/ LoadReturns(t, Err(NvApiError("FunctionNotFound", 0, "nvapi_QueryInterface")))
             \/ \E api \in ResolvedChoices :
                   /\ "Initialize" \notin api
                   /\ LoadReturns(t, Err(NvApiError("FunctionNotFound", 0, "NvAPI_Initialize")))
          /\ UNCHANGED <<inits, inflight, log>>
       \/ /\ Top(t).pc = "start"
          /\ loads' = loads + 1
          /\ \E api \in ResolvedChoices :
                /\ "Initialize" \in api
                /\ SetTop(t, [Top(t) EXCEPT !.pc = "ret", !.api = api])
          /\ inits' = inits + 1
          /\ Begin(t, "Initialize")
          /\ UNCHANGED <<nvapi, log>>
       \/ /\ Top(t).pc = "ret"
          /\ \E status \in {NVAPI_OK, NVAPI_ERROR} :
                /\ Logged(t, "Initialize", status)
                /\ LoadReturns(t, IF status # NVAPI_OK
                                  THEN Err(NvApiError("InitializationFailed", status, ""))
                                  ELSE Ok(Top(t).api))
          /\ End(t)
          /\ UNCHANGED <<loads, inits>>
    /\ UNCHANGED <<session, lock, alive, nextHandle, mem, disk, short, ret, history>>

\* A caller hands string_to_wchar its string and its buffer.
WriteBuffer(t) ==
    /\ At(t, "string_to_wchar", "start")
    /\ SetTop(t, [Top(t) EXCEPT !.pc = "written",
                                !.buffer = string_to_wchar(Top(t).name, Top(t).buffer)])
    /\ UNCHANGED <<cells, backend, ret, inflight, log, history>>

\* The buffer that was written is read back with wchar_to_string.
ReadBuffer(t) ==
    /\ At(t, "string_to_wchar", "written")
    /\ Goto(t, "read")
    /\ ret' = [ret EXCEPT ![t] = Ok(wchar_to_string(Top(t).buffer))]
    /\ UNCHANGED <<cells, backend, inflight, log, history>>

---------------------------------------------------------------------------
(* session.rs: the session *)

\* CleanUp that never calls destroy.
CleanUpSkipped(t, status) ==
    /\ End(t)
    /\ CreateSessionReturns(t, Err(NvApiError("LoadSettingsFailed", status, "")))

\* load_settings failed with status: "Clean up on failure", destroy the handle
\* when destroy is resolved, then return LoadSettingsFailed(status).
CleanUp(t, status) ==
    IF "DestroySession" \in Api
    THEN /\ Begin(t, "DestroySession")
         /\ SetTop(t, [Top(t) EXCEPT !.pc = "destroyed", !.status = status])
         /\ UNCHANGED <<session, ret>>
    ELSE /\ End(t)
         /\ CreateSessionReturns(t, Err(NvApiError("LoadSettingsFailed", status, "")))

\* create_session, after its get_nvapi()?.
create_session(t) ==
    /\ Running(t) /\ Top(t).fn = "create_session"
    /\ \/ /\ Top(t).pc = "call"
          /\ \E f \in {"CreateSession", "LoadSettings"} :
                /\ f \notin Api
                /\ f = "LoadSettings" => "CreateSession" \in Api
                /\ CreateSessionReturns(t,
                       Err(NvApiError("FunctionNotFound", 0, "NvAPI_DRS_" \o f)))
          /\ UNCHANGED <<alive, nextHandle, mem, inflight, log>>
       \/ /\ Top(t).pc = "call"
          /\ {"CreateSession", "LoadSettings"} \subseteq Api
          /\ Begin(t, "CreateSession")
          /\ Goto(t, "created")
          /\ UNCHANGED <<session, alive, nextHandle, mem, ret, log>>
       \/ /\ Top(t).pc = "created"
          /\ nextHandle <= MaxSessions
          /\ Logged(t, "CreateSession", NVAPI_OK)
          /\ alive' = alive \cup {nextHandle}
          /\ nextHandle' = nextHandle + 1
          /\ SetTop(t, [Top(t) EXCEPT !.pc = "loaded", !.sess = nextHandle])
          /\ Begin(t, "LoadSettings")
          /\ UNCHANGED <<session, mem, ret>>
       \/ /\ Top(t).pc = "created"
          /\ Logged(t, "CreateSession", NVAPI_ERROR)
          /\ End(t)
          /\ CreateSessionReturns(t, Err(NvApiError("SessionCreationFailed", NVAPI_ERROR, "")))
          /\ UNCHANGED <<alive, nextHandle, mem>>
       \/ /\ Top(t).pc = "loaded"
          /\ Logged(t, "LoadSettings", NVAPI_OK)
          /\ mem' = disk
          /\ End(t)
          /\ CreateSessionReturns(t, Ok(Top(t).sess))
          /\ UNCHANGED <<alive, nextHandle>>
       \/ /\ Top(t).pc = "loaded"
          /\ Logged(t, "LoadSettings", NVAPI_ERROR)
          /\ CleanUp(t, NVAPI_ERROR)
          /\ UNCHANGED <<alive, nextHandle, mem>>
       \/ /\ Top(t).pc = "destroyed"
          /\ \E status \in {NVAPI_OK, NVAPI_ERROR} :
                /\ Logged(t, "DestroySession", status)
                /\ alive' = IF status = NVAPI_OK THEN alive \ {Top(t).sess} ELSE alive
          /\ End(t)
          /\ CreateSessionReturns(t,
                 Err(NvApiError("LoadSettingsFailed", Top(t).status, "")))
          /\ UNCHANGED <<nextHandle, mem>>
    /\ UNCHANGED <<nvapi, lock, disk, loads, inits, short, history>>

\* get_session whose guard is not dropped: the lock stays with the caller.
get_session_keeping(t) ==
    /\ Running(t)
    /\ \/ /\ Top(t).pc = "get_session"
          /\ session.state = "uninit"
          /\ session' = [session EXCEPT !.state = "running"]
          /\ Push(t, "get_session", Frame("create_session", "", "", NullHandle, 0))
          /\ UNCHANGED <<lock, ret>>
       \/ /\ Top(t).pc = "get_session"
          /\ session.state = "done"
          /\ Goto(t, "lock")
          /\ UNCHANGED <<session, lock, ret>>
       \/ /\ Top(t).pc = "lock"
          /\ lock = 0
          /\ lock' = t
          /\ Goto(t, "unlock")
          /\ UNCHANGED <<session, ret>>
       \/ /\ Top(t).pc = "unlock"
          /\ lock' = lock
          /\ IF Top(t).fn = "get_session"
             THEN Return(t, Ok(session.handle))
             ELSE /\ SetTop(t, [Top(t) EXCEPT !.pc = "call", !.sess = session.handle])
                  /\ UNCHANGED ret
          /\ UNCHANGED session
    /\ UNCHANGED <<nvapi, backend, inflight, log, history>>

\* get_session: DRS_SESSION.get_or_try_init(create_session)?, then lock the mutex,
\* copy the handle out and drop the guard on return.
get_session(t) ==
    /\ Running(t)
    /\ \/ /\ Top(t).pc = "get_session"
          /\ session.state = "uninit"
          /\ session' = [session EXCEPT !.state = "running"]
          /\ Push(t, "get_session", Frame("create_session", "", "", NullHandle, 0))
          /\ UNCHANGED <<lock, ret>>
       \/ /\ Top(t).pc = "get_session"
          /\ session.state = "done"
          /\ Goto(t, "lock")
          /\ UNCHANGED <<session, lock, ret>>
       \/ /\ Top(t).pc = "lock"
          /\ lock = 0
          /\ lock' = t
          /\ Goto(t, "unlock")
          /\ UNCHANGED <<session, ret>>
       \/ /\ Top(t).pc = "unlock"
          /\ lock' = 0
          /\ IF Top(t).fn = "get_session"
             THEN Return(t, Ok(session.handle))
             ELSE /\ SetTop(t, [Top(t) EXCEPT !.pc = "call", !.sess = session.handle])
                  /\ UNCHANGED ret
          /\ UNCHANGED session
    /\ UNCHANGED <<nvapi, backend, inflight, log, history>>

\* Resolve that reports every entry point as missing.
ResolveNothing(t, entry, name) ==
    /\ Return(t, Err(NvApiError("FunctionNotFound", 0, name)))
    /\ UNCHANGED inflight

\* api.<entry>.ok_or_else(FunctionNotFound)?, then the call itself begins.
Resolve(t, entry, name) ==
    IF entry \notin Api
    THEN /\ Return(t, Err(NvApiError("FunctionNotFound", 0, name)))
         /\ UNCHANGED inflight
    ELSE /\ Begin(t, entry)
         /\ Goto(t, "ret")
         /\ UNCHANGED ret

\* DrsSaveSettings that writes the in-memory registry whatever it returns.
DrsSaveSettingsAlways(status) == mem

\* What SaveSettings leaves on disk: the in-memory registry when it succeeds.
DrsSaveSettings(status) == IF status = NVAPI_OK THEN mem ELSE disk

\* save_settings: commit the in-memory registry.
save_settings(t) ==
    /\ Running(t) /\ Top(t).fn = "save_settings"
    /\ \/ /\ Top(t).pc = "call"
          /\ Resolve(t, "SaveSettings", "NvAPI_DRS_SaveSettings")
          /\ UNCHANGED <<disk, log>>
       \/ /\ Top(t).pc = "ret"
          /\ \E status \in {NVAPI_OK, NVAPI_ERROR} :
                /\ Logged(t, "SaveSettings", status)
                /\ disk' = DrsSaveSettings(status)
                /\ Return(t, IF status # NVAPI_OK
                             THEN Err(NvApiError("SaveSettingsFailed", status, ""))
                             ELSE Ok(Unit))
          /\ End(t)
    /\ UNCHANGED <<cells, alive, nextHandle, mem, loads, inits, short, history>>

\* DrsLoadSettings that leaves the in-memory registry as it is.
DrsLoadSettingsKept(status) == mem

\* What LoadSettings leaves in memory: the persisted registry when it succeeds.
DrsLoadSettings(status) == IF status = NVAPI_OK THEN disk ELSE mem

\* reload_settings: discard the in-memory registry and read the persisted one.
reload_settings(t) ==
    /\ Running(t) /\ Top(t).fn = "reload_settings"
    /\ \/ /\ Top(t).pc = "call"
          /\ Resolve(t, "LoadSettings", "NvAPI_DRS_LoadSettings")
          /\ UNCHANGED <<mem, log>>
       \/ /\ Top(t).pc = "ret"
          /\ \E status \in {NVAPI_OK, NVAPI_ERROR} :
                /\ Logged(t, "LoadSettings", status)
                /\ mem' = DrsLoadSettings(status)
                /\ Return(t, IF status # NVAPI_OK
                             THEN Err(NvApiError("LoadSettingsFailed", status, ""))
                             ELSE Ok(Unit))
          /\ End(t)
    /\ UNCHANGED <<cells, alive, nextHandle, disk, loads, inits, short, history>>

---------------------------------------------------------------------------
(* profiles.rs, applications.rs *)

find_profile_by_name(t) ==
    /\ Running(t) /\ Top(t).fn = "find_profile_by_name"
    /\ \/ /\ Top(t).pc = "call"
          /\ Resolve(t, "FindProfileByName", "NvAPI_DRS_FindProfileByName")
          /\ UNCHANGED log
       \/ /\ Top(t).pc = "ret"
          /\ \E o \in Outcomes(t, DrsFindProfileByName(mem, WideName(Top(t).name)), mem) :
                /\ Logged(t, "FindProfileByName", o.status)
                /\ Return(t, IF o.status = NVAPI_PROFILE_NOT_FOUND
                             THEN Err(NvApiError("ProfileNotFound", 0, Top(t).name))
                             ELSE IF o.status # NVAPI_OK
                             THEN Err(NvApiError("NvApiStatus", o.status, ""))
                             ELSE Ok(o.handle))
          /\ End(t)
    /\ UNCHANGED <<cells, backend, history>>

create_profile(t) ==
    /\ Running(t) /\ Top(t).fn = "create_profile"
    /\ \/ /\ Top(t).pc = "call"
          /\ Resolve(t, "CreateProfile", "NvAPI_DRS_CreateProfile")
          /\ UNCHANGED <<mem, log>>
       \/ /\ Top(t).pc = "ret"
          /\ \E o \in Outcomes(t, DrsCreateProfile(mem, WideName(Top(t).name)), mem) :
                /\ Logged(t, "CreateProfile", o.status)
                /\ mem' = o.reg
                /\ Return(t, IF o.status # NVAPI_OK
                             THEN Err(NvApiError("ProfileCreationFailed", o.status, ""))
                             ELSE Ok(o.handle))
          /\ End(t)
    /\ UNCHANGED <<cells, alive, nextHandle, disk, loads, inits, short, history>>

\* FoundApplication that takes every status but NVAPI_OK for not-found.
FoundApplicationOrNotFound(o, executable) ==
    IF o.status # NVAPI_OK
    THEN Err(NvApiError("ApplicationNotFound", 0, executable))
    ELSE Ok([handle |-> o.handle, app |-> o.value])

\* What find_application makes of the backend's answer.
FoundApplication(o, executable) ==
    IF o.status = NVAPI_EXECUTABLE_NOT_FOUND
    THEN Err(NvApiError("ApplicationNotFound", 0, executable))
    ELSE IF o.status # NVAPI_OK
    THEN Err(NvApiError("NvApiStatus", o.status, ""))
    ELSE Ok([handle |-> o.handle, app |-> o.value])

find_application(t) ==
    /\ Running(t) /\ Top(t).fn = "find_application"
    /\ \/ /\ Top(t).pc = "call"
          /\ Resolve(t, "FindApplicationByName", "NvAPI_DRS_FindApplicationByName")
          /\ UNCHANGED log
       \/ /\ Top(t).pc = "ret"
          /\ \E o \in Outcomes(t, DrsFindApplicationByName(mem, WideName(Top(t).exe)), mem) :
                /\ Logged(t, "FindApplicationByName", o.status)
                /\ Return(t, FoundApplication(o, Top(t).exe))
          /\ End(t)
    /\ UNCHANGED <<cells, backend, history>>

create_application(t) ==
    /\ Running(t) /\ Top(t).fn = "create_application"
    /\ \/ /\ Top(t).pc = "call"
          /\ Resolve(t, "CreateApplication", "NvAPI_DRS_CreateApplication")
          /\ UNCHANGED <<mem, log>>
       \/ /\ Top(t).pc = "ret"
          /\ \E o \in Outcomes(t, DrsCreateApplication(mem, Top(t).h, WideName(Top(t).exe),
                                                    WideName(Top(t).name)), mem) :
                /\ Logged(t, "CreateApplication", o.status)
                /\ mem' = o.reg
                /\ Return(t, IF o.status # NVAPI_OK
                             THEN Err(NvApiError("ApplicationCreationFailed", o.status, ""))
                             ELSE Ok(Unit))
          /\ End(t)
    /\ UNCHANGED <<cells, alive, nextHandle, disk, loads, inits, short, history>>

\* create_profile_for_executable: create_profile?, create_application?, save_settings?.
create_profile_for_executable(t) ==
    /\ Running(t) /\ Top(t).fn = "create_profile_for_executable"
    /\ \/ /\ Top(t).pc = "start"
          /\ Push(t, "created_profile", Frame("create_profile", "", Top(t).name, NullHandle, 0))
          /\ UNCHANGED ret
       \/ /\ Top(t).pc = "created_profile"
          /\ IF ret[t].ok
             THEN /\ Push(t, "created_application",
                          Frame("create_application", Top(t).exe, Top(t).name, ret[t].val, 0))
                  /\ UNCHANGED ret
             ELSE Return(t, ret[t])
       \/ /\ Top(t).pc = "created_application"
          /\ IF ret[t].ok
             THEN /\ Push(t, "saved", Frame("save_settings", "", "", NullHandle, 0))
                  /\ UNCHANGED ret
             ELSE Return(t, ret[t])
       \/ /\ Top(t).pc = "saved"
          /\ Return(t, IF ret[t].ok THEN Ok(Unit) ELSE ret[t])
    /\ UNCHANGED <<cells, backend, inflight, log, history>>

\* ProfileEntry that reports every profile as predefined.
ProfileEntryPredefined(info) ==
    DrsProfile(wchar_to_string(info.profile_name), TRUE, info.num_of_apps)

\* The DrsProfile pushed for a profile whose info was read.
ProfileEntry(info) ==
    DrsProfile(wchar_to_string(info.profile_name), info.is_predefined # 0,
               info.num_of_apps)

\* Pushed that adds an entry for a profile whose info was not read: the entry of
\* the zeroed NvdrsProfile the call was handed.
PushedAlways(profiles, o) ==
    Append(profiles, IF o.status = NVAPI_OK THEN ProfileEntry(o.value)
                     ELSE DrsProfile("", FALSE, 0))

\* if info_status == NVAPI_OK { profiles.push(..) }: a profile whose info was
\* not read is left out.
Pushed(profiles, o) ==
    IF o.status = NVAPI_OK THEN Append(profiles, ProfileEntry(o.value)) ELSE profiles

\* Stopped that returns the profiles collected so far whatever ended the loop.
StoppedKeeping(status, profiles) == Ok(profiles)

\* What enumerate_profiles returns when EnumProfiles answers with a status
\* other than NVAPI_OK: the profiles at end-of-enumeration, else the status.
Stopped(status, profiles) ==
    IF status = NVAPI_END_ENUMERATION THEN Ok(profiles)
    ELSE Err(NvApiError("NvApiStatus", status, ""))

\* enumerate_profiles: ask for the profile at index 0, 1, ... until the backend
\* says end-of-enumeration, reading the info of each.
enumerate_profiles(t) ==
    /\ Running(t) /\ Top(t).fn = "enumerate_profiles"
    /\ \/ /\ Top(t).pc = "call"
          /\ \E f \in {"EnumProfiles", "GetProfileInfo"} :
                /\ f \notin Api
                /\ f = "GetProfileInfo" => "EnumProfiles" \in Api
                /\ Return(t, Err(NvApiError("FunctionNotFound", 0, "NvAPI_DRS_" \o f)))
          /\ UNCHANGED <<inflight, log>>
       \/ /\ Top(t).pc = "call"
          /\ {"EnumProfiles", "GetProfileInfo"} \subseteq Api
          /\ Begin(t, "EnumProfiles")
          /\ Goto(t, "enum")
          /\ UNCHANGED <<ret, log>>
       \/ /\ Top(t).pc = "enum"
          /\ \E o \in Outcomes(t, DrsEnumProfiles(mem, Top(t).index), mem) :
                /\ Logged(t, "EnumProfiles", o.status)
                /\ IF o.status # NVAPI_OK
                   THEN End(t) /\ Return(t, Stopped(o.status, Top(t).items))
                   ELSE /\ Begin(t, "GetProfileInfo")
                        /\ SetTop(t, [Top(t) EXCEPT !.pc = "info", !.h = o.handle])
                        /\ UNCHANGED ret
       \/ /\ Top(t).pc = "info"
          /\ \E o \in Outcomes(t, DrsGetProfileInfo(mem, Top(t).h), mem) :
                /\ Logged(t, "GetProfileInfo", o.status)
                /\ SetTop(t, [Top(t) EXCEPT
                       !.pc = "enum",
                       !.index = @ + 1,
                       !.items = Pushed(@, o)])
          /\ Begin(t, "EnumProfiles")
          /\ UNCHANGED ret
    /\ UNCHANGED <<cells, backend, history>>

\* NextApplication that returns after the first batch.
NextApplicationOneBatch(t, f) ==
    IF f.i < f.count
    THEN /\ stack' = [stack EXCEPT ![t] =
                <<Frame("get_shadowplay_status", "", "", f.h, 0),
                  [f EXCEPT !.pc = "status"]>> \o Tail(@)]
         /\ UNCHANGED <<ret, inflight>>
    ELSE /\ Return(t, Ok(f.items))
         /\ UNCHANGED inflight

\* NextApplication that advances start_index by the size of the batch it asked
\* for, not by the count it got.
NextApplicationByBatch(t, f) ==
    IF f.i < f.count
    THEN /\ stack' = [stack EXCEPT ![t] =
                <<Frame("get_shadowplay_status", "", "", f.h, 0),
                  [f EXCEPT !.pc = "status"]>> \o Tail(@)]
         /\ UNCHANGED <<ret, inflight>>
    ELSE IF LessU32(f.index + BatchSize, f.num)
    THEN /\ SetTop(t, [f EXCEPT !.pc = "batch", !.index = @ + BatchSize])
         /\ Begin(t, "EnumApplications")
         /\ UNCHANGED ret
    ELSE /\ Return(t, Ok(f.items))
         /\ UNCHANGED inflight

\* NumApps that takes a profile whose info was not read to hold no application.
NumAppsOrNone(o) == IF o.status # NVAPI_OK THEN 0 ELSE o.value.num_of_apps

\* The bound of the while loop: the application count of the profile info, or
\* u32::MAX when the info was not read ("try enumerating anyway").
NumApps(o) == IF o.status # NVAPI_OK THEN U32_MAX ELSE o.value.num_of_apps

\* PagesEnded that returns the status of a batch the backend failed.
PagesEndedOrFailed(status, apps) ==
    IF status \in {NVAPI_OK, NVAPI_END_ENUMERATION} THEN Ok(apps)
    ELSE Err(NvApiError("NvApiStatus", status, ""))

\* What enumerate_applications returns when a batch ends the loop (break): the
\* applications of the batches before it, whatever the status.
PagesEnded(status, apps) == Ok(apps)

\* The for loop and the while loop of enumerate_applications, from frame f on:
\* read the status of the next application of the batch; after the last one
\* advance start_index and ask for the next batch while start_index < num_apps.
NextApplication(t, f) ==
    IF f.i < f.count
    THEN /\ stack' = [stack EXCEPT ![t] =
                <<Frame("get_shadowplay_status", "", "", f.h, 0),
                  [f EXCEPT !.pc = "status"]>> \o Tail(@)]
         /\ UNCHANGED <<ret, inflight>>
    ELSE IF LessU32(f.index + f.count, f.num)
    THEN /\ SetTop(t, [f EXCEPT !.pc = "batch", !.index = @ + f.count])
         /\ Begin(t, "EnumApplications")
         /\ UNCHANGED ret
    ELSE /\ Return(t, Ok(f.items))
         /\ UNCHANGED inflight

\* enumerate_applications(profile_handle, profile_name): read the application
\* count, then the applications in batches, with the feature status of each.
enumerate_applications(t) ==
    /\ Running(t) /\ Top(t).fn = "enumerate_applications"
    /\ \/ /\ Top(t).pc = "call"
          /\ \E f \in {"EnumApplications", "GetProfileInfo"} :
                /\ f \notin Api
                /\ f = "GetProfileInfo" => "EnumApplications" \in Api
                /\ Return(t, Err(NvApiError("FunctionNotFound", 0, "NvAPI_DRS_" \o f)))
          /\ UNCHANGED <<inflight, log>>
       \/ /\ Top(t).pc = "call"
          /\ {"EnumApplications", "GetProfileInfo"} \subseteq Api
          /\ Begin(t, "GetProfileInfo")
          /\ Goto(t, "info")
          /\ UNCHANGED <<ret, log>>
       \/ /\ Top(t).pc = "info"
          /\ \E o \in Outcomes(t, DrsGetProfileInfo(mem, Top(t).h), mem) :
                /\ Logged(t, "GetProfileInfo", o.status)
                /\ LET num_apps == NumApps(o)
                   IN  IF LessU32(0, num_apps)
                       THEN /\ SetTop(t, [Top(t) EXCEPT !.pc = "batch", !.num = num_apps])
                            /\ Begin(t, "EnumApplications")
                            /\ UNCHANGED ret
                       ELSE /\ End(t)
                            /\ Return(t, Ok(Top(t).items))
       \/ /\ Top(t).pc = "batch"
          /\ \E limit \in PageLimits :
             \E o \in Outcomes(t, DrsEnumApplications(mem, Top(t).h, Top(t).index,
                                                      Min(BatchSize, limit)), mem) :
                /\ Logged(t, "EnumApplications", o.status)
                /\ IF o.status # NVAPI_OK \/ o.value.count = 0
                   THEN Return(t, PagesEnded(o.status, Top(t).items))
                   ELSE /\ stack' = [stack EXCEPT ![t] =
                               <<Frame("get_shadowplay_status", "", "", Top(t).h, 0),
                                 [Top(t) EXCEPT !.pc = "status", !.i = 0,
                                                !.count = o.value.count,
                                                !.page = o.value.apps]>> \o Tail(@)]
                        /\ UNCHANGED ret
          /\ End(t)
       \/ /\ Top(t).pc = "status"
          /\ LET app == Top(t).page[Top(t).i + 1]
                 entry == DrsApplication(WideName(app.user_friendly_name),
                                         WideName(app.app_name),
                                         Top(t).name,
                                         app.is_predefined,
                                         IF ret[t].ok THEN ret[t].val ELSE FALSE)
             IN  NextApplication(t, [Top(t) EXCEPT !.i = @ + 1,
                                                   !.items = Append(@, entry)])
          /\ UNCHANGED log
    /\ UNCHANGED <<cells, backend, history>>

\* Extend that puts the applications of a profile before those collected so far.
ExtendInFront(all_apps, r) == IF r.ok THEN r.val \o all_apps ELSE all_apps

\* if let Ok(apps) = enumerate_applications(..) { all_apps.extend(apps) }
Extend(all_apps, r) == IF r.ok THEN all_apps \o r.val ELSE all_apps

\* The for loop of get_all_applications, from frame f on: skip the profiles
\* without applications, look the next one up by name, return after the last.
NextProfile(t, f) ==
    LET rest == {k \in (f.index + 1)..Len(f.profiles) :
                    f.profiles[k].application_count # 0}
    IN  IF rest = {}
        THEN Return(t, Ok(f.items))
        ELSE LET k == CHOOSE k \in rest : \A j \in rest : k <= j
             IN  /\ stack' = [stack EXCEPT ![t] =
                        <<Frame("find_profile_by_name", "", f.profiles[k].name, NullHandle, 0),
                          [f EXCEPT !.pc = "found", !.index = k]>> \o Tail(@)]
                 /\ UNCHANGED ret

\* What get_all_applications got for a profile it visited.
Visited(t, name, found, apps) ==
    visits' = [visits EXCEPT ![t] =
                  Append(@, [name |-> name, found |-> found, apps |-> apps])]

\* get_all_applications: enumerate_profiles()?, then the applications of every
\* profile that has some; a profile that is not found or not enumerated is left out.
get_all_applications(t) ==
    /\ Running(t) /\ Top(t).fn = "get_all_applications"
    /\ \/ /\ Top(t).pc = "start"
          /\ Push(t, "profiles", Frame("enumerate_profiles", "", "", NullHandle, 0))
          /\ UNCHANGED <<ret, visits>>
       \/ /\ Top(t).pc = "profiles"
          /\ IF ret[t].ok
             THEN NextProfile(t, [Top(t) EXCEPT !.profiles = ret[t].val, !.index = 0])
             ELSE Return(t, ret[t])
          /\ UNCHANGED visits
       \/ /\ Top(t).pc = "found"
          /\ IF ret[t].ok
             THEN /\ stack' = [stack EXCEPT ![t] =
                         <<Frame("enumerate_applications", "",
                                 Top(t).profiles[Top(t).index].name, ret[t].val, 0),
                           [Top(t) EXCEPT !.pc = "apps", !.h = ret[t].val]>> \o Tail(@)]
                  /\ UNCHANGED <<ret, visits>>
             ELSE /\ NextProfile(t, Top(t))
                  /\ Visited(t, Top(t).profiles[Top(t).index].name, ret[t], NoResult)
       \/ /\ Top(t).pc = "apps"
          /\ NextProfile(t, [Top(t) EXCEPT !.items = Extend(@, ret[t])])
          /\ Visited(t, Top(t).profiles[Top(t).index].name, Ok(Top(t).h), ret[t])
    /\ UNCHANGED <<cells, backend, inflight, log, ops, cur, pre, prev, past>>

---------------------------------------------------------------------------
(* settings.rs *)

\* get_dword_setting that writes the value it read back to the profile.
get_dword_setting_writing(t) ==
    /\ Running(t) /\ Top(t).fn = "get_dword_setting"
    /\ \/ /\ Top(t).pc = "call"
          /\ Resolve(t, "GetSetting", "NvAPI_DRS_GetSetting")
          /\ UNCHANGED <<mem, log>>
       \/ /\ Top(t).pc = "ret"
          /\ \E o \in Outcomes(t, DrsGetSetting(mem, Top(t).h, Top(t).id), mem) :
                /\ Logged(t, "GetSetting", o.status)
                /\ mem' = IF o.status = NVAPI_OK
                           THEN DrsSetSetting(mem, Top(t).h, Top(t).id, OtherValue).reg
                           ELSE mem
                /\ Return(t, IF o.status = NVAPI_SETTING_NOT_FOUND
                             THEN Err(NvApiError("GetSettingFailed", o.status, ""))
                             ELSE IF o.status # NVAPI_OK
                             THEN Err(NvApiError("GetSettingFailed", o.status, ""))
                             ELSE Ok(o.value))
          /\ End(t)
    /\ UNCHANGED <<cells, alive, nextHandle, disk, loads, inits, short, history>>

get_dword_setting(t) ==
    /\ Running(t) /\ Top(t).fn = "get_dword_setting"
    /\ \/ /\ Top(t).pc = "call"
          /\ Resolve(t, "GetSetting", "NvAPI_DRS_GetSetting")
          /\ UNCHANGED log
       \/ /\ Top(t).pc = "ret"
          /\ \E o \in Outcomes(t, DrsGetSetting(mem, Top(t).h, Top(t).id), mem) :
                /\ Logged(t, "GetSetting", o.status)
                /\ Return(t, IF o.status = NVAPI_SETTING_NOT_FOUND
                             THEN Err(NvApiError("GetSettingFailed", o.status, ""))
                             ELSE IF o.status # NVAPI_OK
                             THEN Err(NvApiError("GetSettingFailed", o.status, ""))
                             ELSE Ok(o.value))
          /\ End(t)
    /\ UNCHANGED <<cells, backend, history>>

set_dword_setting(t) ==
    /\ Running(t) /\ Top(t).fn = "set_dword_setting"
    /\ \/ /\ Top(t).pc = "call"
          /\ Resolve(t, "SetSetting", "NvAPI_DRS_SetSetting")
          /\ UNCHANGED <<mem, log>>
       \/ /\ Top(t).pc = "ret"
          /\ \E o \in Outcomes(t, DrsSetSetting(mem, Top(t).h, Top(t).id, Top(t).value), mem) :
                /\ Logged(t, "SetSetting", o.status)
                /\ mem' = o.reg
                /\ Return(t, IF o.status # NVAPI_OK
                             THEN Err(NvApiError("SetSettingFailed", o.status, ""))
                             ELSE Ok(Unit))
          /\ End(t)
    /\ UNCHANGED <<cells, alive, nextHandle, disk, loads, inits, short, history>>

\* ShadowplayStatus with the comparison inverted.
ShadowplayStatusInverted(r) ==
    IF r.ok THEN Ok(r.val # SHADOWPLAY_DISABLED)
    ELSE IF r.err.kind = "GetSettingFailed" THEN Ok(FALSE)
    ELSE r

\* ShadowplayStatus that takes every value but the enabled sentinel for disabled.
ShadowplayStatusNotEnabled(r) ==
    IF r.ok THEN Ok(r.val # SHADOWPLAY_ENABLED)
    ELSE IF r.err.kind = "GetSettingFailed" THEN Ok(FALSE)
    ELSE r

\* What get_shadowplay_status makes of get_dword_setting's result.
ShadowplayStatus(r) ==
    IF r.ok THEN Ok(r.val = SHADOWPLAY_DISABLED)
    ELSE IF r.err.kind = "GetSettingFailed" THEN Ok(FALSE)
    ELSE r

get_shadowplay_status(t) ==
    /\ Running(t) /\ Top(t).fn = "get_shadowplay_status"
    /\ \/ /\ Top(t).pc = "start"
          /\ Push(t, "match", Frame("get_dword_setting", "", "", Top(t).h, 0))
          /\ UNCHANGED ret
       \/ /\ Top(t).pc = "match"
          /\ Return(t, ShadowplayStatus(ret[t]))
    /\ UNCHANGED <<cells, backend, inflight, log, history>>

\* SetShadowplay with the two sentinels swapped.
SetShadowplaySwapped(h, value) ==
    Frame("set_dword_setting", "", "", h,
          IF value = SHADOWPLAY_DISABLED THEN SHADOWPLAY_ENABLED ELSE SHADOWPLAY_DISABLED)

\* set_dword_setting(profile_handle, SHADOWPLAY_SETTING_ID, value): the call.
SetShadowplay(h, value) == Frame("set_dword_setting", "", "", h, value)

\* format!("Nvidiot - {}", executable)
ProfileNameFor(executable) == "Nvidiot - " \o executable

\* BlacklistedExisting that reports failure.
BlacklistedExistingFailure(executable) ==
    BlacklistResult(FALSE, executable, "Application blacklisted successfully")

BlacklistedExisting(executable) ==
    BlacklistResult(TRUE, executable, "Application blacklisted successfully")

BlacklistedCreated(executable, profile_name) ==
    BlacklistResult(TRUE, executable,
        "Created profile '" \o profile_name \o "' and blacklisted application")

blacklist_application(t) ==
    /\ Running(t) /\ Top(t).fn = "blacklist_application"
    /\ \/ /\ Top(t).pc = "start"
          /\ Push(t, "match", Frame("find_application", Top(t).exe, "", NullHandle, 0))
          /\ UNCHANGED ret
       \/ /\ Top(t).pc = "match" /\ ret[t].ok
          /\ Push(t, "set_existing", SetShadowplay(ret[t].val.handle, SHADOWPLAY_DISABLED))
          /\ UNCHANGED ret
       \/ /\ Top(t).pc = "match" /\ IsErr(ret[t], "ApplicationNotFound")
          /\ stack' = [stack EXCEPT ![t] =
                <<Frame("find_profile_by_name", "", ProfileNameFor(Top(t).exe), NullHandle, 0),
                  [Top(t) EXCEPT !.pc = "match_profile",
                                 !.name = ProfileNameFor(Top(t).exe)]>> \o Tail(@)]
          /\ UNCHANGED ret
       \/ /\ Top(t).pc = "match" /\ ~ret[t].ok /\ ~IsErr(ret[t], "ApplicationNotFound")
          /\ Return(t, ret[t])
       \/ /\ Top(t).pc \in {"set_existing", "set_created"}
          /\ IF ret[t].ok
             THEN /\ Push(t, IF Top(t).pc = "set_existing" THEN "saved_existing" ELSE "saved_created",
                          Frame("save_settings", "", "", NullHandle, 0))
                  /\ UNCHANGED ret
             ELSE Return(t, ret[t])
       \/ /\ Top(t).pc = "saved_existing"
          /\ Return(t, IF ret[t].ok THEN Ok(BlacklistedExisting(Top(t).exe)) ELSE ret[t])
       \/ /\ Top(t).pc = "match_profile" /\ IsErr(ret[t], "ProfileNotFound")
          /\ Push(t, "profile", Frame("create_profile", "", Top(t).name, NullHandle, 0))
          /\ UNCHANGED ret
       \/ /\ Top(t).pc = "match_profile" /\ ~ret[t].ok /\ ~IsErr(ret[t], "ProfileNotFound")
          /\ Return(t, ret[t])
       \/ /\ \/ Top(t).pc = "match_profile" /\ ret[t].ok
             \/ Top(t).pc = "profile"
          /\ IF ret[t].ok
             THEN /\ stack' = [stack EXCEPT ![t] =
                        <<Frame("create_application", Top(t).exe, Top(t).name, ret[t].val, 0),
                          [Top(t) EXCEPT !.pc = "application", !.h = ret[t].val]>> \o Tail(@)]
                  /\ UNCHANGED ret
             ELSE Return(t, ret[t])
       \/ /\ Top(t).pc = "application"
          /\ IF ret[t].ok
             THEN /\ Push(t, "set_created", SetShadowplay(Top(t).h, SHADOWPLAY_DISABLED))
                  /\ UNCHANGED ret
             ELSE Return(t, ret[t])
       \/ /\ Top(t).pc = "saved_created"
          /\ Return(t, IF ret[t].ok THEN Ok(BlacklistedCreated(Top(t).exe, Top(t).name))
                       ELSE ret[t])
    /\ UNCHANGED <<cells, backend, inflight, log, history>>

Unblacklisted(executable) ==
    BlacklistResult(TRUE, executable, "Application unblacklisted successfully")

\* NotTracked that reports success.
NotTrackedSuccess(executable) ==
    BlacklistResult(TRUE, executable, "Application not found in driver settings")

NotTracked(executable) ==
    BlacklistResult(FALSE, executable, "Application not found in driver settings")

unblacklist_application(t) ==
    /\ Running(t) /\ Top(t).fn = "unblacklist_application"
    /\ \/ /\ Top(t).pc = "start"
          /\ Push(t, "match", Frame("find_application", Top(t).exe, "", NullHandle, 0))
          /\ UNCHANGED ret
       \/ /\ Top(t).pc = "match" /\ ret[t].ok
          /\ Push(t, "set", SetShadowplay(ret[t].val.handle, SHADOWPLAY_ENABLED))
          /\ UNCHANGED ret
       \/ /\ Top(t).pc = "match" /\ IsErr(ret[t], "ApplicationNotFound")
          /\ Return(t, Ok(NotTracked(Top(t).exe)))
       \/ /\ Top(t).pc = "match" /\ ~ret[t].ok /\ ~IsErr(ret[t], "ApplicationNotFound")
          /\ Return(t, ret[t])
       \/ /\ Top(t).pc = "set"
          /\ IF ret[t].ok
             THEN /\ Push(t, "saved", Frame("save_settings", "", "", NullHandle, 0))
                  /\ UNCHANGED ret
             ELSE Return(t, ret[t])
       \/ /\ Top(t).pc = "saved"
          /\ Return(t, IF ret[t].ok THEN Ok(Unblacklisted(Top(t).exe)) ELSE ret[t])
    /\ UNCHANGED <<cells, backend, inflight, log, history>>

---------------------------------------------------------------------------
(* Specifications *)

Step(t, limit) ==
    \/ Invoke(t, limit)
    \/ get_nvapi(t)
    \/ load(t)
    \/ get_session(t)
    \/ create_session(t)
    \/ save_settings(t)
    \/ reload_settings(t)
    \/ find_profile_by_name(t)
    \/ create_profile(t)
    \/ find_application(t)
    \/ create_application(t)
    \/ create_profile_for_executable(t)
    \/ get_dword_setting(t)
    \/ set_dword_setting(t)
    \/ get_shadowplay_status(t)
    \/ blacklist_application(t)
    \/ unblacklist_application(t)

\* Commands arrive concurrently (the async commands of lib.rs).
Next == \E t \in Threads : Step(t, MaxCommands)

Spec == Init /\ [][Next]_vars

\* One caller: each command returns before the next is invoked.
NextSeq == Step(1, 0)

SpecSeq == Init /\ [][NextSeq]_vars

\* n applications f1.exe .. fn.exe of a profile the user made.
Applications(prefix, n) ==
    [k \in 1..n |-> Application(prefix \o ToString(k) \o ".exe",
                                "App " \o ToString(k), FALSE)]

\* A registry to list: the base profile without applications, P holding app.exe,
\* and Q holding two applications with the feature toggle disabled.
ListedRegistry(settings) ==
    <<Profile("Base", TRUE, <<>>, {}),
      Profile("P", TRUE, <<Application("app.exe", "App", TRUE)>>, settings),
      Profile("Q", FALSE, Applications("q", 2), {<<SHADOWPLAY_SETTING_ID, SHADOWPLAY_DISABLED>>})>>

InitEnum ==
    /\ Unloaded
    /\ short = {}
    /\ \E s \in InitialSettings : disk = ListedRegistry(s)
    /\ stack = [t \in Threads |-> <<>>]
    /\ Quiet

\* The listings and lookups of profiles.rs and applications.rs.
EnumCommands ==
    {Command("enumerate_profiles", "", "", NullHandle),
     Command("get_all_applications", "", "", NullHandle)}
    \cup {Command("enumerate_applications", "", h, h) : h \in {"Base", "P", "Q"}}
    \cup {Command("find_application", e, "", NullHandle) : e \in Executables}

NextEnum ==
    \/ Call(1, EnumCommands, 0)
    \/ get_nvapi(1)
    \/ load(1)
    \/ get_session(1)
    \/ create_session(1)
    \/ enumerate_profiles(1)
    \/ enumerate_applications(1)
    \/ get_all_applications(1)
    \/ find_profile_by_name(1)
    \/ find_application(1)
    \/ get_dword_setting(1)
    \/ get_shadowplay_status(1)

SpecEnum == InitEnum /\ [][NextEnum]_vars

\* A registry whose profiles hold no application, one batch exactly, and one
\* application more than a batch.
BatchedRegistry ==
    <<Profile("Base", TRUE, <<>>, {}),
      Profile("Full", FALSE, Applications("f", BatchSize), {}),
      Profile("Over", FALSE, Applications("o", BatchSize + 1),
              {<<SHADOWPLAY_SETTING_ID, SHADOWPLAY_DISABLED>>})>>

InitBatches ==
    /\ Unloaded
    /\ short = {}
    /\ disk = BatchedRegistry
    /\ stack = [t \in Threads |-> <<>>]
    /\ Quiet

BatchCommands ==
    {Command("enumerate_applications", "", h, h) : h \in {"Base", "Full", "Over"}}

NextBatches ==
    \/ Call(1, BatchCommands, 0)
    \/ get_nvapi(1)
    \/ load(1)
    \/ get_session(1)
    \/ create_session(1)
    \/ enumerate_applications(1)
    \/ get_dword_setting(1)
    \/ get_shadowplay_status(1)

SpecBatches == InitBatches /\ [][NextBatches]_vars

\* The calls of a round trip through the session: write the disabled sentinel to
\* P's feature toggle, save, reload, read the feature status of P.
RoundTripCommands ==
    {Command("set_dword_setting", "", "", "P"),
     Command("save_settings", "", "", NullHandle),
     Command("reload_settings", "", "", NullHandle),
     Command("get_shadowplay_status", "", "", "P")}

NextRoundTrip ==
    \/ Call(1, RoundTripCommands, RoundTripDepth)
    \/ get_nvapi(1)
    \/ load(1)
    \/ get_session(1)
    \/ create_session(1)
    \/ save_settings(1)
    \/ reload_settings(1)
    \/ get_dword_setting(1)
    \/ set_dword_setting(1)
    \/ get_shadowplay_status(1)

SpecRoundTrip == Init /\ [][NextRoundTrip]_vars

\* A registry to page through: the base profile without applications, and T
\* holding three applications with the feature toggle disabled.
PagedRegistry ==
    <<Profile("Base", TRUE, <<>>, {}),
      Profile("T", FALSE, Applications("t", 3),
              {<<SHADOWPLAY_SETTING_ID, SHADOWPLAY_DISABLED>>})>>

\* A backend that may return 0 .. MaxShort applications where more were asked
\* for and remain.
InitPages ==
    /\ Unloaded
    /\ short = 0..MaxShort
    /\ disk = PagedRegistry
    /\ stack = [t \in Threads |-> <<>>]
    /\ Quiet

PageCommands == {Command("enumerate_applications", "", h, h) : h \in {"Base", "T"}}

NextPages ==
    \/ Call(1, PageCommands, 0)
    \/ get_nvapi(1)
    \/ load(1)
    \/ get_session(1)
    \/ create_session(1)
    \/ enumerate_applications(1)
    \/ get_dword_setting(1)
    \/ get_shadowplay_status(1)

SpecPages == InitPages /\ [][NextPages]_vars

\* The caller and the backend keep taking their steps.
FairPages == SpecPages /\ WF_vars(NextPages)

\* A registry in which two applications share the profile S, whose feature
\* toggle is absent or holds a value that is neither sentinel.
SharedRegistry(settings) == <<Profile("S", FALSE, Applications("s", 2), settings)>>

InitShared ==
    /\ Unloaded
    /\ short = {}
    /\ \E s \in InitialSettings : disk = SharedRegistry(s)
    /\ stack = [t \in Threads |-> <<>>]
    /\ Quiet

\* Blacklist one of the two applications, list the applications of the profile.
SharedCommands ==
    {Command("blacklist_application", "s1.exe", "", NullHandle),
     Command("enumerate_applications", "", "S", "S")}

NextShared ==
    \/ Call(1, SharedCommands, 1)
    \/ get_nvapi(1)
    \/ load(1)
    \/ get_session(1)
    \/ create_session(1)
    \/ save_settings(1)
    \/ find_application(1)
    \/ set_dword_setting(1)
    \/ blacklist_application(1)
    \/ enumerate_applications(1)
    \/ get_dword_setting(1)
    \/ get_shadowplay_status(1)

SpecShared == InitShared /\ [][NextShared]_vars

\* The strings and buffers string_to_wchar is applied to: every string of up to
\* MaxLen characters over the alphabet, every capacity up to MaxCap, and a buffer
\* that is zeroed or holds units of an earlier use.
Alphabet == {"a", "b", NUL, Astral}

RECURSIVE StringsUpTo(_)
StringsUpTo(n) ==
    IF n = 0 THEN {""}
    ELSE LET shorter == StringsUpTo(n - 1)
         IN  shorter \cup {s \o c : s \in shorter, c \in Alphabet}

UsedBuffer(cap) == [cap |-> cap, data |-> [i \in 1..cap |-> "x"]]

InitWchar ==
    /\ Unloaded
    /\ short = {}
    /\ disk = NoRegistry
    /\ \E s \in StringsUpTo(MaxLen), cap \in 1..MaxCap :
          \E buffer \in {ZeroBuffer(cap), UsedBuffer(cap)} :
             stack = [t \in Threads |->
                        IF t = 1
                        THEN <<[Frame("string_to_wchar", "", s, NullHandle, cap)
                                   EXCEPT !.buffer = buffer]>>
                        ELSE <<>>]
    /\ Quiet

NextWchar == WriteBuffer(1) \/ ReadBuffer(1)

\* The two conversions of ffi.rs, applied once to each input.
SpecWchar == InitWchar /\ [][NextWchar]_vars

---------------------------------------------------------------------------
(* Vocabulary of the properties *)

\* The command `name` of t has returned.
Finished(t, name) == Done(t) /\ cur[t].name = name

\* The registry the command of t started from: the in-memory registry of the
\* session, or the persisted one that the session it creates will load.
StartRegistry(t) == IF pre[t].loaded THEN pre[t].mem ELSE pre[t].disk

\* The statuses the calls of `entry` returned to the command of t.
Statuses(t, entry) ==
    {log[t][i].status : i \in {j \in 1..Len(log[t]) : log[t][j].entry = entry}}

Invoked(t, entry) == Statuses(t, entry) # {}

\* The function table is there and holds the entry points in `needed`.
Resolved(needed) == nvapi.state = "done" /\ nvapi.value.ok /\ needed \subseteq Api

\* A call succeeded: NVAPI_OK, or the not-found answer of a lookup.
Expected(call) ==
    \/ call.status = NVAPI_OK
    \/ call.entry = "FindApplicationByName" /\ call.status = NVAPI_EXECUTABLE_NOT_FOUND
    \/ call.entry = "FindProfileByName" /\ call.status = NVAPI_PROFILE_NOT_FOUND

CallsSucceed(t) == \A i \in 1..Len(log[t]) : Expected(log[t][i])

\* The profiles of a registry and the application entries of each.
Shape(reg) == [i \in 1..Len(reg) |-> [name |-> reg[i].name, apps |-> reg[i].apps]]

\* Profile h holds the feature toggle with this value.
Toggle(reg, h, value) ==
    HasSetting(reg, h, SHADOWPLAY_SETTING_ID) /\ SettingOf(reg, h, SHADOWPLAY_SETTING_ID) = value

---------------------------------------------------------------------------
(* C1: blacklisting an executable the registry does not hold *)

\* blacklist_application(e) returned, e had no application entry when it was
\* invoked, the entry points it uses are resolved and every call succeeded.
C1_Case(t) ==
    /\ Finished(t, "blacklist_application")
    /\ ~HasApplication(StartRegistry(t), cur[t].exe)
    /\ Resolved({"CreateSession", "LoadSettings", "FindApplicationByName",
                 "FindProfileByName", "CreateProfile", "CreateApplication",
                 "SetSetting", "SaveSettings"})
    /\ CallsSucceed(t)

\* What C1 promises with `said` as the words the message contains.
C1_Outcome(t, said) ==
    LET e == cur[t].exe
        name == "Nvidiot - " \o e
    IN  /\ name \in ProfileNames(mem)
        /\ e \in AppNames(mem[ProfileAt(mem, name)])
        /\ ProfileOfApp(mem, e) = name
        /\ Toggle(mem, name, SHADOWPLAY_DISABLED)
        /\ disk = mem
        /\ ret[t].ok
        /\ ret[t].val.success
        /\ ret[t].val.executable = e
        /\ Contains(ret[t].val.message, said)

---------------------------------------------------------------------------
(* C2: blacklisting an executable the registry holds *)

\* blacklist_application(e) returned and its application lookup found e.
C2_Case(t) ==
    /\ Finished(t, "blacklist_application")
    /\ NVAPI_OK \in Statuses(t, "FindApplicationByName")

\* C2: for every executable e that the application lookup finds in a profile P,
\* blacklist(e) never invokes create-profile or create-application and leaves
\* the profiles and the application entries as they were; the set-setting call
\* it makes puts the disabled sentinel in P's feature toggle; it saves, and it
\* returns success = true exactly when set-setting and save succeeded, with the
\* message of the existing-application path and the registry saved.
C2_ExistingPath ==
    \A t \in Threads : C2_Case(t) =>
        LET e == cur[t].exe
            P == ProfileOfApp(StartRegistry(t), e)
        IN  /\ ~Invoked(t, "CreateProfile")
            /\ ~Invoked(t, "CreateApplication")
            /\ Shape(mem) = Shape(StartRegistry(t))
            /\ NVAPI_OK \in Statuses(t, "SetSetting") =>
                   Toggle(mem, P, SHADOWPLAY_DISABLED)
            /\ ret[t].ok <=> /\ NVAPI_OK \in Statuses(t, "SetSetting")
                             /\ NVAPI_OK \in Statuses(t, "SaveSettings")
            /\ ret[t].ok =>
                   /\ ret[t].val = BlacklistResult(TRUE, e, "Application blacklisted successfully")
                   /\ disk = mem
                   /\ Toggle(disk, P, SHADOWPLAY_DISABLED)

\* A blacklist of an executable that was found returned success.
C2_Witness ==
    \E t \in Threads :
        /\ C2_Case(t)
        /\ ret[t].ok
        /\ ret[t].val.success
        /\ Toggle(mem, ProfileOfApp(StartRegistry(t), cur[t].exe), SHADOWPLAY_DISABLED)

---------------------------------------------------------------------------
(* C3: unblacklisting an executable the registry does not hold *)

\* unblacklist_application(e) returned and its lookup reported not-found.
C3_Case(t) ==
    /\ Finished(t, "unblacklist_application")
    /\ NVAPI_EXECUTABLE_NOT_FOUND \in Statuses(t, "FindApplicationByName")

\* C3: when the application lookup reports the not-found sentinel,
\* unblacklist(e) returns Ok with success = false and invokes none of
\* create-profile, create-application, set-setting and save, so that the
\* in-memory and the persisted registry are unchanged.
C3_NotFoundMutatesNothing ==
    \A t \in Threads : C3_Case(t) =>
        /\ ret[t].ok
        /\ ~ret[t].val.success
        /\ ret[t].val.executable = cur[t].exe
        /\ \A f \in {"CreateProfile", "CreateApplication", "SetSetting", "SaveSettings"} :
               ~Invoked(t, f)
        /\ mem = StartRegistry(t)
        /\ disk = pre[t].disk

\* An unblacklist of game.exe, which no profile holds, returned; the registry
\* had unsaved changes then.
C3_Witness ==
    \E t \in Threads :
        /\ C3_Case(t)
        /\ cur[t].exe = "game.exe"
        /\ ret[t].ok
        /\ mem # disk

---------------------------------------------------------------------------
(* C4: unblacklisting an executable the registry holds *)

\* unblacklist_application(e) returned; its lookup found e, and its set-setting
\* and save succeeded.
C4_Case(t) ==
    /\ Finished(t, "unblacklist_application")
    /\ NVAPI_OK \in Statuses(t, "FindApplicationByName")
    /\ NVAPI_OK \in Statuses(t, "SetSetting")
    /\ NVAPI_OK \in Statuses(t, "SaveSettings")

\* get_shadowplay_status(P) returned right after an unblacklist of an executable
\* of P that returned success = true, and it made its get-setting call.
C4_Following(t) ==
    /\ Finished(t, "get_shadowplay_status")
    /\ prev[t].name = "unblacklist_application"
    /\ cur[t].h = ProfileOfApp(pre[t].mem, prev[t].exe)
    /\ Invoked(t, "GetSetting")

\* C4: for every executable e that the application lookup finds in a profile P,
\* when set-setting and save succeed, unblacklist(e) leaves P's feature toggle
\* equal to the enabled sentinel in the in-memory and in the persisted registry
\* and returns success = true, and a following get_feature_status(P) returns
\* "not blacklisted".
C4_UnblacklistEnables ==
    \A t \in Threads :
        /\ C4_Case(t) =>
              LET P == ProfileOfApp(StartRegistry(t), cur[t].exe)
              IN  /\ Toggle(mem, P, SHADOWPLAY_ENABLED)
                  /\ Toggle(disk, P, SHADOWPLAY_ENABLED)
                  /\ ret[t].ok
                  /\ ret[t].val.success
        /\ C4_Following(t) => ret[t] = Ok(FALSE)

\* The status of P was read after a successful unblacklist of app.exe, and the
\* backend answered the read with the stored value.
C4_Witness ==
    \E t \in Threads :
        /\ C4_Following(t)
        /\ prev[t].exe = "app.exe"
        /\ Statuses(t, "GetSetting") = {NVAPI_OK}
        /\ Toggle(mem, "P", SHADOWPLAY_ENABLED)
        /\ Toggle(disk, "P", SHADOWPLAY_ENABLED)

---------------------------------------------------------------------------
(* C5: blacklisting twice *)

\* blacklist_application(e) returned with every call succeeding, right after a
\* blacklist_application(e) that returned success = true.
C5_Case(t) ==
    /\ Finished(t, "blacklist_application")
    /\ prev[t].name = "blacklist_application"
    /\ prev[t].exe = cur[t].exe
    /\ Resolved({"FindApplicationByName", "SetSetting", "SaveSettings"})
    /\ CallsSucceed(t)

\* C5: for every executable e, after a successful blacklist(e) a second
\* blacklist(e) with every backend call succeeding again returns success = true
\* and leaves the toggle of e's profile equal to the disabled sentinel, with
\* the profiles and the application entries exactly as after the first call.
C5_BlacklistTwice ==
    \A t \in Threads : C5_Case(t) =>
        LET e == cur[t].exe
            P == ProfileOfApp(pre[t].mem, e)
        IN  /\ ret[t].ok
            /\ ret[t].val.success
            /\ ProfileOfApp(mem, e) = P
            /\ Toggle(mem, P, SHADOWPLAY_DISABLED)
            /\ Toggle(disk, P, SHADOWPLAY_DISABLED)
            /\ Shape(mem) = Shape(pre[t].mem)
            /\ Shape(disk) = Shape(pre[t].disk)
            /\ ~Invoked(t, "CreateProfile")
            /\ ~Invoked(t, "CreateApplication")

\* game.exe was blacklisted twice in a row; the first call created its profile.
C5_Witness ==
    \E t \in Threads :
        /\ C5_Case(t)
        /\ cur[t].exe = "game.exe"
        /\ ProfileOfApp(mem, "game.exe") = "Nvidiot - game.exe"
        /\ ret[t].ok

---------------------------------------------------------------------------
(* C6: reading the status *)

\* get_shadowplay_status(P) returned and the backend answered its get-setting
\* call with the stored value or with setting-not-found.
C6_Case(t) ==
    /\ Finished(t, "get_shadowplay_status")
    /\ Statuses(t, "GetSetting") \in {{NVAPI_OK}, {NVAPI_SETTING_NOT_FOUND}}

\* C6: get_feature_status(P) returns "blacklisted" if and only if P's feature
\* toggle is present with the disabled sentinel; when the toggle was never
\* written (setting-not-found) or holds any other value it returns
\* Ok("not blacklisted").
C6_StatusReflectsToggle ==
    \A t \in Threads :
        /\ Finished(t, "get_shadowplay_status") /\ ret[t] = Ok(TRUE) =>
              Toggle(mem, cur[t].h, SHADOWPLAY_DISABLED)
        /\ C6_Case(t) =>
              ret[t] = Ok(Toggle(mem, cur[t].h, SHADOWPLAY_DISABLED))

\* The three answers: blacklisted, a toggle that holds another value, and a
\* toggle that was never written.
C6_Witness ==
    \E t \in Threads :
        /\ C6_Case(t)
        /\ cur[t].h = "P"
        /\ ret[t] = Ok(TRUE)

C6_WitnessOther ==
    \E t \in Threads :
        /\ C6_Case(t)
        /\ Toggle(mem, cur[t].h, OtherValue)
        /\ ret[t] = Ok(FALSE)

C6_WitnessAbsent ==
    \E t \in Threads :
        /\ C6_Case(t)
        /\ NVAPI_SETTING_NOT_FOUND \in Statuses(t, "GetSetting")
        /\ ret[t] = Ok(FALSE)

---------------------------------------------------------------------------
(* C7: a failing read of the status *)

\* C7: setting-not-found is an outcome of its own, apart from every other
\* backend failure: when the get-setting call fails with a status other than
\* setting-not-found, get_feature_status returns an error carrying that status
\* and not Ok("not blacklisted").
C7_FailurePropagates ==
    \A t \in Threads :
        Finished(t, "get_shadowplay_status") =>
            \A status \in Statuses(t, "GetSetting") \ {NVAPI_OK, NVAPI_SETTING_NOT_FOUND} :
                /\ ~ret[t].ok
                /\ ret[t].err.code = status

---------------------------------------------------------------------------
(* C8: the session lock *)

\* The entry points that work on the session.
SessionEntryPoints ==
    {"LoadSettings", "SaveSettings", "FindProfileByName", "CreateProfile",
     "FindApplicationByName", "CreateApplication", "GetSetting", "SetSetting"}

\* C8: every backend invocation executes while its caller holds the exclusive
\* lock of the session, so that no two backend invocations on the session are
\* in progress at the same time.
C8_ExclusiveInvocation ==
    /\ \A t \in Threads : inflight[t] \in SessionEntryPoints => lock = t
    /\ \A t, u \in Threads :
           inflight[t] \in SessionEntryPoints /\ inflight[u] \in SessionEntryPoints => t = u

\* The second half of C8 alone: no two invocations on the session overlap.
C8_NoOverlap ==
    \A t, u \in Threads :
        inflight[t] \in SessionEntryPoints /\ inflight[u] \in SessionEntryPoints => t = u

---------------------------------------------------------------------------
(* C9: the function table is resolved once *)

\* C9: under any number of sequential or concurrent requests the backend is
\* resolved and initialised at most once, and every caller finds the outcome
\* that one attempt left in the cell: the cell never changes once it is set.
C9_ResolvedOnce ==
    /\ [](loads <= 1 /\ inits <= 1)
    /\ [][nvapi.state = "done" => nvapi' = nvapi]_vars

\* One thread is inside Initialize while another waits for the cell.
C9_Witness ==
    \E t, u \in Threads :
        /\ t # u
        /\ At(t, "load", "ret")
        /\ Running(u) /\ Top(u).pc = "get_nvapi"
        /\ nvapi.state = "running"
        /\ loads = 1

\* Both threads finished a command that went through the one resolution.
C9_WitnessBoth ==
    /\ \A t \in Threads : Done(t) /\ ret[t].ok
    /\ loads = 1
    /\ inits = 1

---------------------------------------------------------------------------
(* C10: a failed resolution is cached *)

\* The resolution of the backend was attempted, is over, and left no table.
ResolutionFailed ==
    /\ loads >= 1
    /\ \A t \in Threads : ~(Running(t) /\ Top(t).fn = "load")
    /\ ~nvapi.value.ok

\* C10: once the resolution has failed, every later operation returns an error
\* and invokes no backend entry point, and the resolution is never retried.
C10_FailureIsCached ==
    ResolutionFailed =>
        /\ loads = 1
        /\ inits <= 1
        /\ nvapi.state = "done"
        /\ alive = {}
        /\ session.state # "done"
        /\ mem = NoRegistry
        /\ \A t \in Threads :
              /\ inflight[t] = NoCall
              /\ \A i \in 1..Len(log[t]) : log[t][i].entry = "Initialize"
              /\ Done(t) => IsErr(ret[t], "InitializationFailed")

\* Initialize failed in an earlier command; a blacklist invoked after it
\* returned the error without a backend call.
C10_Witness ==
    /\ ResolutionFailed
    /\ nvapi.value.err.kind = "InitializationFailed"
    /\ \E t \in Threads :
          /\ Finished(t, "blacklist_application")
          /\ log[t] = <<>>
          /\ IsErr(ret[t], "InitializationFailed")

---------------------------------------------------------------------------
(* C12: a session whose settings do not load *)

\* The i-th call of the command of t is a create-session that succeeded and
\* the next one is the load-settings of that session, which failed.
LoadFailedAt(t, i) ==
    /\ i + 1 <= Len(log[t])
    /\ log[t][i] = [entry |-> "CreateSession", status |-> NVAPI_OK]
    /\ log[t][i + 1].entry = "LoadSettings"
    /\ log[t][i + 1].status # NVAPI_OK

\* The command of t returned and its last session did not load.
C12_Case(t) == Done(t) /\ \E i \in 1..Len(log[t]) : LoadFailedAt(t, i)

\* C12 as the spec states it: whenever create-session succeeds and the
\* load-settings that follows returns a non-success status, destroy-session is
\* invoked on the handle before LoadSettingsFailed is returned, so that no
\* session handle is left alive after a failed get_session.
C12_Original ==
    \A t \in Threads : C12_Case(t) =>
        /\ IsErr(ret[t], "LoadSettingsFailed")
        /\ \A i \in 1..Len(log[t]) : LoadFailedAt(t, i) =>
               /\ i + 2 <= Len(log[t])
               /\ log[t][i + 2].entry = "DestroySession"
        /\ alive = {}

\* C12, amended: when destroy-session is resolved it is invoked on the handle
\* right after the failed load-settings and before LoadSettingsFailed is
\* returned, and the handle is gone once the backend accepts the call; when
\* destroy-session is unresolved nothing is invoked and the handle stays alive.
C12_Amended ==
    \A t \in Threads : C12_Case(t) =>
        LET i == Len(log[t]) - (IF "DestroySession" \in Api THEN 2 ELSE 1)
            handle == nextHandle - 1
        IN  /\ LoadFailedAt(t, i)
            /\ ret[t] = Err(NvApiError("LoadSettingsFailed", log[t][i + 1].status, ""))
            /\ session.state = "uninit"
            /\ IF "DestroySession" \in Api
               THEN /\ log[t][i + 2].entry = "DestroySession"
                    /\ log[t][i + 2].status = NVAPI_OK <=> handle \notin alive
               ELSE /\ ~Invoked(t, "DestroySession")
                    /\ handle \in alive

\* A session that did not load was destroyed, and nothing is left alive.
C12_Witness ==
    \E t \in Threads :
        /\ C12_Case(t)
        /\ NVAPI_OK \in Statuses(t, "DestroySession")
        /\ alive = {}

\* A session that did not load stays alive: destroy-session is unresolved.
C12_WitnessLeak ==
    \E t \in Threads :
        /\ C12_Case(t)
        /\ "DestroySession" \notin Api
        /\ alive # {}

---------------------------------------------------------------------------
(* C13: one session for the process *)

\* A get_session command returned a handle to t.
GotSession(t) == Finished(t, "get_session") /\ ret[t].ok

\* C13: get_session creates the session by create-session followed by
\* load-settings; once a call has succeeded, every get_session call of every
\* caller returns that handle, create-session is not invoked again, and the
\* handle is never destroyed: the session cell never changes once it is set.
C13_OneSession ==
    /\ [](\A t \in Threads :
            /\ GotSession(t) =>
                  /\ session.state = "done"
                  /\ ret[t].val = session.handle
                  /\ session.handle \in alive
                  /\ \A u \in Threads : GotSession(u) => ret[u].val = ret[t].val
                  /\ (~pre[t].loaded /\ Invoked(t, "CreateSession")) =>
                        /\ Len(log[t]) >= 2
                        /\ SubSeq(log[t], Len(log[t]) - 1, Len(log[t])) =
                              <<[entry |-> "CreateSession", status |-> NVAPI_OK],
                                [entry |-> "LoadSettings", status |-> NVAPI_OK]>>
            /\ (pre[t].loaded /\ cur[t].name # "none") =>
                  /\ session.state = "done"
                  /\ session.handle \in alive
                  /\ ~Invoked(t, "CreateSession")
                  /\ ~Invoked(t, "DestroySession")
                  /\ inflight[t] \notin {"CreateSession", "DestroySession"})
    /\ [][session.state = "done" => session' = session]_vars

\* Both threads asked for the session while none existed and got the same
\* handle: one of them created it.
C13_Witness ==
    /\ \A t \in Threads : GotSession(t) /\ ~pre[t].loaded
    /\ \E t \in Threads : Invoked(t, "CreateSession")
    /\ \E t \in Threads : ~Invoked(t, "CreateSession")

---------------------------------------------------------------------------
(* C20: a lookup that fails *)

\* The command of t stands right after a lookup that returned an error other
\* than its not-found answer: the application lookup of blacklist(e) or
\* unblacklist(e), or the profile lookup of blacklist(e).
LookupFailed(t) ==
    /\ Running(t)
    /\ ~ret[t].ok
    /\ \/ /\ Top(t).fn \in {"blacklist_application", "unblacklist_application"}
          /\ Top(t).pc = "match"
          /\ ret[t].err.kind # "ApplicationNotFound"
       \/ /\ Top(t).fn = "blacklist_application"
          /\ Top(t).pc = "match_profile"
          /\ ret[t].err.kind # "ProfileNotFound"

\* The command of t returned after one of its lookups answered with a failure
\* status.
C20_Case(t) ==
    /\ Done(t)
    /\ cur[t].name \in {"blacklist_application", "unblacklist_application"}
    /\ \E f \in {"FindApplicationByName", "FindProfileByName"} : NVAPI_ERROR \in Statuses(t, f)

\* C20: in blacklist(e) and unblacklist(e), when the application lookup fails
\* with an error other than application-not-found, and in blacklist(e) when the
\* profile lookup fails with an error other than profile-not-found, the next
\* step of the command returns that same error and nothing else happens: no
\* profile or application is created, no setting is written, save is not
\* invoked.
C20_LookupErrorPropagates ==
    /\ [][\A t \in Threads : LookupFailed(t) /\ stack'[t] # stack[t] =>
              /\ stack'[t] = Tail(stack[t])
              /\ ret'[t] = ret[t]
              /\ UNCHANGED <<mem, disk, log, inflight>>]_vars
    /\ [](\A t \in Threads : C20_Case(t) =>
              /\ ret[t] = Err(NvApiError("NvApiStatus", NVAPI_ERROR, ""))
              /\ log[t][Len(log[t])].status = NVAPI_ERROR
              /\ \A f \in {"CreateApplication", "SetSetting", "SaveSettings"} : ~Invoked(t, f)
              /\ NVAPI_ERROR \in Statuses(t, "FindApplicationByName") =>
                     ~Invoked(t, "FindProfileByName")
              /\ ~Invoked(t, "CreateProfile")
              /\ mem = StartRegistry(t)
              /\ disk = pre[t].disk)

\* A blacklist of game.exe whose profile lookup failed returned the error.
C20_Witness ==
    \E t \in Threads :
        /\ C20_Case(t)
        /\ cur[t].name = "blacklist_application"
        /\ NVAPI_ERROR \in Statuses(t, "FindProfileByName")
        /\ ~ret[t].ok

\* An unblacklist whose application lookup is unresolved returned the error.
C20_WitnessUnresolved ==
    \E t \in Threads :
        /\ Finished(t, "unblacklist_application")
        /\ ret[t] = Err(NvApiError("FunctionNotFound", 0, "NvAPI_DRS_FindApplicationByName"))

---------------------------------------------------------------------------
(* C19: string_to_wchar and wchar_to_string *)

\* Unit i of a buffer (the units after `data` are 0).
UnitAt(buffer, i) == IF i <= Len(buffer.data) THEN buffer.data[i] ELSE NUL

\* string_to_wchar(s, buffer) has returned.
C19_Case(t) ==
    /\ Running(t)
    /\ Top(t).fn = "string_to_wchar"
    /\ Top(t).pc \in {"written", "read"}

\* C19: for every string s and every buffer of capacity c >= 1, after
\* string_to_wchar the buffer still has capacity c and holds the first
\* min(len(s), c - 1) UTF-16 units of s followed by a 0 unit, len(s) being the
\* number of UTF-16 units of s; and when s has fewer than c units and none of
\* them is 0, wchar_to_string of the written buffer returns s.
C19_WriteAndReadBack ==
    \A t \in Threads : C19_Case(t) =>
        LET s == Top(t).name
            c == Top(t).value
            units == encode_utf16(s)
            n == Min(Len(units), c - 1)
        IN  /\ Top(t).buffer.cap = c
            /\ Len(Top(t).buffer.data) <= c
            /\ \A i \in 1..n : UnitAt(Top(t).buffer, i) = units[i]
            /\ UnitAt(Top(t).buffer, n + 1) = NUL
            /\ (/\ Top(t).pc = "read"
                /\ Len(units) < c
                /\ \A i \in 1..Len(units) : units[i] # NUL)
               => ret[t] = Ok(s)

\* A string of three units was written to a used buffer of capacity 2: one unit
\* and the terminator.
C19_Witness ==
    \E t \in Threads :
        /\ C19_Case(t)
        /\ Len(encode_utf16(Top(t).name)) = 3
        /\ Top(t).value = 2
        /\ Top(t).buffer.data = <<SubSeq(Top(t).name, 1, 1), NUL>>

\* A string that fits was read back from a used buffer, a character above U+FFFF
\* included.
C19_WitnessReadBack ==
    \E t \in Threads :
        /\ C19_Case(t)
        /\ Top(t).pc = "read"
        /\ Top(t).name = "a" \o Astral
        /\ Top(t).buffer.data = <<"a", HighSurrogate, LowSurrogate, NUL>>
        /\ ret[t] = Ok(Top(t).name)

\* Truncation split a surrogate pair: what is read back ends in U+FFFD.
C19_WitnessSplit ==
    \E t \in Threads :
        /\ C19_Case(t)
        /\ Top(t).pc = "read"
        /\ Top(t).name = "a" \o Astral
        /\ Top(t).value = 3
        /\ ret[t] = Ok("a" \o REPLACEMENT_CHARACTER)

\* A string holding a 0 unit is read back only up to that unit.
C19_WitnessZero ==
    \E t \in Threads :
        /\ C19_Case(t)
        /\ Top(t).pc = "read"
        /\ Top(t).name = "a" \o NUL \o "b"
        /\ Top(t).value = 4
        /\ ret[t] = Ok("a")

---------------------------------------------------------------------------
(* C18: an unsaved write does not survive reload_settings *)

\* The read of P's feature status returned and the backend answered it with the
\* value or with setting-not-found; just before it reload_settings returned Ok, and just before that set_dword_setting wrote
\* the disabled sentinel to P's feature toggle and returned Ok: nothing was
\* saved in between.
C18_Case(t) ==
    /\ Finished(t, "get_shadowplay_status")
    /\ Invoked(t, "GetSetting")
    /\ Statuses(t, "GetSetting") \subseteq {NVAPI_OK, NVAPI_SETTING_NOT_FOUND}
    /\ Len(past[t]) >= 2
    /\ past[t][1] = [command |-> Command("reload_settings", "", "", NullHandle),
                     result |-> Ok(Unit)]
    /\ past[t][2] = [command |-> Command("set_dword_setting", "", "", cur[t].h),
                     result |-> Ok(Unit)]

\* C18: after the feature toggle of a profile is set to the disabled sentinel
\* without a save, reload_settings followed by a read of the feature status
\* returns the persisted value, not the unsaved in-memory write: the status is
\* true exactly when the persisted toggle holds the disabled sentinel, and the
\* in-memory registry is the persisted one again.
C18_ReloadDiscardsUnsaved ==
    \A t \in Threads : C18_Case(t) =>
        /\ ret[t] = Ok(Toggle(disk, cur[t].h, SHADOWPLAY_DISABLED))
        /\ mem = disk

\* The persisted toggle is not the disabled sentinel and the read, after an
\* unsaved write of it and a reload, says not blacklisted.
C18_Witness ==
    \E t \in Threads :
        /\ C18_Case(t)
        /\ ~Toggle(disk, cur[t].h, SHADOWPLAY_DISABLED)
        /\ ret[t] = Ok(FALSE)

\* The same round trip over a persisted disabled sentinel: the read says
\* blacklisted.
C18_WitnessPersisted ==
    \E t \in Threads :
        /\ C18_Case(t)
        /\ Toggle(disk, cur[t].h, SHADOWPLAY_DISABLED)
        /\ ret[t] = Ok(TRUE)

---------------------------------------------------------------------------
(* C14: enumerate_profiles lists the registry *)

\* enumerate_profiles returned, it reached the backend, and no call of the
\* command was answered with a status other than NVAPI_OK and end-of-enumeration.
C14_Case(t) ==
    /\ Finished(t, "enumerate_profiles")
    /\ Invoked(t, "EnumProfiles")
    /\ \A i \in 1..Len(log[t]) :
          log[t][i].status \in {NVAPI_OK, NVAPI_END_ENUMERATION}

\* The profiles of a registry as enumerate_profiles reports them.
Reported(reg) ==
    [i \in 1..Len(reg) |-> DrsProfile(reg[i].name, reg[i].is_predefined, Len(reg[i].apps))]

\* C14: when the backend reports no error other than end-of-enumeration,
\* enumerate_profiles returns exactly the profiles of the backend, one entry per
\* profile in ascending index order, none missing, none duplicated, and with
\* names that are all distinct.
C14_ExactlyTheProfiles ==
    \A t \in Threads : C14_Case(t) =>
        /\ ret[t] = Ok(Reported(mem))
        /\ \A i, j \in 1..Len(ret[t].val) :
              i # j => ret[t].val[i].name # ret[t].val[j].name

\* The three profiles of the registry were listed.
C14_Witness ==
    \E t \in Threads :
        /\ C14_Case(t)
        /\ ret[t].ok
        /\ Len(ret[t].val) = 3
        /\ ret[t].val[3] = DrsProfile("Q", FALSE, 2)

---------------------------------------------------------------------------
(* C15: enumerate_applications returns every application of the profile *)

\* enumerate_applications(profile) returned, its info read succeeded and no
\* batch was answered with an error status.
C15_Case(t) ==
    /\ Finished(t, "enumerate_applications")
    /\ Statuses(t, "GetProfileInfo") = {NVAPI_OK}
    /\ Statuses(t, "EnumApplications") \subseteq {NVAPI_OK, NVAPI_END_ENUMERATION}

\* C15: for every profile whose info read succeeds and whose application
\* enumeration meets no error status, enumerate_applications(profile) returns
\* exactly applicationCount entries, those of the profile in order, whether the
\* count is 0, the batch size 32, or above 32.
C15_ExactCount ==
    \A t \in Threads : C15_Case(t) =>
        LET apps == mem[ProfileAt(mem, cur[t].h)].apps
        IN  /\ ret[t].ok
            /\ Len(ret[t].val) = Len(apps)
            /\ \A k \in 1..Len(apps) :
                  /\ ret[t].val[k].executable = apps[k].app_name
                  /\ ret[t].val[k].profile_name = cur[t].pname

\* A profile of 33 applications was listed in two batches.
C15_Witness ==
    \E t \in Threads :
        /\ C15_Case(t)
        /\ cur[t].h = "Over"
        /\ Len(ret[t].val) = BatchSize + 1
        /\ Len(SelectSeq(log[t], LAMBDA c : c.entry = "EnumApplications")) = 2

\* A profile of exactly one batch was listed with one call.
C15_WitnessBatch ==
    \E t \in Threads :
        /\ C15_Case(t)
        /\ cur[t].h = "Full"
        /\ Len(ret[t].val) = BatchSize
        /\ Len(SelectSeq(log[t], LAMBDA c : c.entry = "EnumApplications")) = 1

\* A profile without applications was listed without asking for a batch.
C15_WitnessNone ==
    \E t \in Threads :
        /\ C15_Case(t)
        /\ cur[t].h = "Base"
        /\ ret[t] = Ok(<<>>)
        /\ ~Invoked(t, "EnumApplications")

---------------------------------------------------------------------------
(* C16: get_all_applications leaves out what it cannot resolve *)

\* get_all_applications returned and its enumerate_profiles succeeded: the
\* enumeration ran to end-of-enumeration.
C16_Case(t) ==
    /\ Finished(t, "get_all_applications")
    /\ NVAPI_END_ENUMERATION \in Statuses(t, "EnumProfiles")

\* The entries the visited profiles contributed, in the order of the visits.
RECURSIVE Entries(_)
Entries(vs) ==
    IF vs = <<>> THEN <<>>
    ELSE (IF Head(vs).apps.ok THEN Head(vs).apps.val ELSE <<>>) \o Entries(Tail(vs))

\* C16: whenever enumerate_profiles succeeds, get_all_applications returns Ok.
\* It visits only profiles with a nonzero application count, in profile order;
\* a profile whose lookup by name fails is not enumerated, and such a profile
\* and one whose enumeration fails contribute nothing; the result is the
\* concatenation, in profile order, of what the enumerations of the other
\* profiles returned.
C16_SkipsWhatFails ==
    \A t \in Threads : C16_Case(t) =>
        /\ ret[t] = Ok(Entries(visits[t]))
        /\ \A i \in 1..Len(visits[t]) :
              /\ visits[t][i].name \in ProfileNames(mem)
              /\ mem[ProfileAt(mem, visits[t][i].name)].apps # <<>>
              /\ ~visits[t][i].found.ok => visits[t][i].apps = NoResult
              /\ \A j \in 1..(i - 1) :
                    ProfileAt(mem, visits[t][j].name) < ProfileAt(mem, visits[t][i].name)

\* The lookup of P failed and the aggregate returned the two entries of Q.
C16_Witness ==
    \E t \in Threads :
        /\ C16_Case(t)
        /\ Len(visits[t]) = 2
        /\ visits[t][1].name = "P"
        /\ ~visits[t][1].found.ok
        /\ visits[t][2].apps.ok
        /\ ret[t].ok
        /\ Len(ret[t].val) = 2
        /\ ret[t].val[1].profile_name = "Q"

\* No enumeration succeeded and the aggregate returned Ok with no entry.
C16_WitnessNotEnumerated ==
    \E t \in Threads :
        /\ C16_Case(t)
        /\ Len(visits[t]) = 2
        /\ \A i \in 1..2 : visits[t][i].found.ok /\ ~visits[t][i].apps.ok
        /\ ret[t] = Ok(<<>>)

\* Nothing failed: the entry of P, then the two of Q, each with the feature
\* status of its profile.
C16_WitnessAll ==
    \E t \in Threads :
        /\ C16_Case(t)
        /\ Faults(t) = 0
        /\ ret[t].ok
        /\ Len(ret[t].val) = 3
        /\ ret[t].val[1] = DrsApplication("App", "app.exe", "P", TRUE, FALSE)
        /\ ret[t].val[3] = DrsApplication("App 2", "q2.exe", "Q", FALSE, TRUE)

---------------------------------------------------------------------------
(* C17: the three answers of find_application *)

C17_Case(t) == Finished(t, "find_application")

\* C17: find_application(executable) returns ApplicationNotFound(executable)
\* exactly when the backend lookup answered executable-not-found, the generic
\* NvApiStatus error carrying the raw code for every other status that is not
\* NVAPI_OK, and the pair of profile handle and application record exactly when
\* the lookup answered NVAPI_OK.
C17_LookupAnswers ==
    \A t \in Threads : C17_Case(t) =>
        LET answers == Statuses(t, "FindApplicationByName")
        IN  /\ IsErr(ret[t], "ApplicationNotFound") <=>
                   NVAPI_EXECUTABLE_NOT_FOUND \in answers
            /\ IsErr(ret[t], "ApplicationNotFound") =>
                   ret[t] = Err(NvApiError("ApplicationNotFound", 0, cur[t].exe))
            /\ \A status \in answers \ {NVAPI_OK, NVAPI_EXECUTABLE_NOT_FOUND} :
                   ret[t] = Err(NvApiError("NvApiStatus", status, ""))
            /\ ret[t].ok <=> NVAPI_OK \in answers
            /\ ret[t].ok =>
                   ret[t].val = [handle |-> ProfileOfApp(mem, cur[t].exe),
                                 app |-> AppOf(mem, cur[t].exe)]

\* The lookup of game.exe answered executable-not-found.
C17_Witness ==
    \E t \in Threads :
        /\ C17_Case(t)
        /\ cur[t].exe = "game.exe"
        /\ Statuses(t, "FindApplicationByName") = {NVAPI_EXECUTABLE_NOT_FOUND}
        /\ ret[t] = Err(NvApiError("ApplicationNotFound", 0, "game.exe"))

\* The lookup answered NVAPI_ERROR: the generic error with that code.
C17_WitnessStatus ==
    \E t \in Threads :
        /\ C17_Case(t)
        /\ ret[t] = Err(NvApiError("NvApiStatus", NVAPI_ERROR, ""))

\* The lookup of app.exe answered NVAPI_OK: profile P and the record of app.exe.
C17_WitnessFound ==
    \E t \in Threads :
        /\ C17_Case(t)
        /\ ret[t] = Ok([handle |-> "P", app |-> Application("app.exe", "App", TRUE)])

---------------------------------------------------------------------------
(* C11: an entry point that is missing fails only the operations that use it *)

\* The name FunctionNotFound carries for an entry point.
EntryName(f) == "NvAPI_DRS_" \o f

\* The entry points the code of an operation invokes, those of the operations
\* it calls included.  An operation resolves the entry points it is about to
\* use before the first of them is invoked.
SessionUses == {"CreateSession", "LoadSettings", "DestroySession"}

Uses(name) ==
    CASE name = "check_nvapi" -> {}
      [] name = "get_session" -> SessionUses
      [] name = "save_settings" -> SessionUses \cup {"SaveSettings"}
      [] name = "reload_settings" -> SessionUses \cup {"LoadSettings"}
      [] name = "find_application" -> SessionUses \cup {"FindApplicationByName"}
      [] name = "get_shadowplay_status" -> SessionUses \cup {"GetSetting"}
      [] name = "set_dword_setting" -> SessionUses \cup {"SetSetting"}
      [] name = "create_profile_for_executable" ->
             SessionUses \cup {"CreateProfile", "CreateApplication", "SaveSettings"}
      [] name = "blacklist_application" ->
             SessionUses \cup {"FindApplicationByName", "FindProfileByName", "CreateProfile",
                               "CreateApplication", "SetSetting", "SaveSettings"}
      [] name = "unblacklist_application" ->
             SessionUses \cup {"FindApplicationByName", "SetSetting", "SaveSettings"}
      [] name = "enumerate_profiles" -> SessionUses \cup {"EnumProfiles", "GetProfileInfo"}
      [] name = "enumerate_applications" ->
             SessionUses \cup {"GetProfileInfo", "EnumApplications", "GetSetting"}
      [] name = "get_all_applications" ->
             SessionUses \cup {"EnumProfiles", "GetProfileInfo", "FindProfileByName",
                               "EnumApplications", "GetSetting"}
      [] OTHER -> {}

\* The function table was loaded with an entry point other than Initialize
\* missing.
C11_Case == Resolved({}) /\ Api # EntryPoints

\* C11: an entry point other than Initialize that is unresolved at load time
\* does not fail resolution: a load fails with FunctionNotFound only for
\* nvapi_QueryInterface and NvAPI_Initialize.  An operation returns
\* FunctionNotFound only with the name of an entry point that is missing and
\* that the operation invokes, so an operation whose entry points are all
\* resolved never returns it.
C11_MissingEntryPoint ==
    /\ (nvapi.state = "done" /\ IsErr(nvapi.value, "FunctionNotFound")) =>
           nvapi.value.err.name \in {"nvapi_QueryInterface", "NvAPI_Initialize"}
    /\ \A t \in Threads :
          (Done(t) /\ IsErr(ret[t], "FunctionNotFound")) =>
              /\ Resolved({})
              /\ \E f \in Uses(cur[t].name) \ Api : ret[t].err.name = EntryName(f)

\* With EnumApplications missing the load succeeded, enumerate_applications
\* returned FunctionNotFound with its name, and it is the one entry point missing.
C11_Witness ==
    \E t \in Threads :
        /\ C11_Case
        /\ Finished(t, "enumerate_applications")
        /\ Api = EntryPoints \ {"EnumApplications"}
        /\ ret[t] = Err(NvApiError("FunctionNotFound", 0, "NvAPI_DRS_EnumApplications"))

\* With EnumApplications missing, operations that do not invoke it answer as
\* usual: find_application found app.exe.
C11_WitnessUnaffected ==
    \E t \in Threads :
        /\ C11_Case
        /\ Api = EntryPoints \ {"EnumApplications"}
        /\ Finished(t, "find_application")
        /\ ret[t] = Ok([handle |-> "P", app |-> Application("app.exe", "App", TRUE)])

\* With DestroySession missing no operation reports it: the clean-up of a
\* failed load is left out and the operation returns the load failure.
C11_WitnessSilent ==
    \E t \in Threads :
        /\ C11_Case
        /\ Api = EntryPoints \ {"DestroySession"}
        /\ Done(t)
        /\ ret[t] = Err(NvApiError("LoadSettingsFailed", NVAPI_ERROR, ""))
        /\ alive # {}

---------------------------------------------------------------------------
(* C21: the order of the backend steps when blacklist creates *)

\* The backend steps of the command of t, those of the session left out.
Steps(t) ==
    SelectSeq(log[t], LAMBDA c : c.entry \in {"FindApplicationByName", "FindProfileByName",
                                               "CreateProfile", "CreateApplication",
                                               "SetSetting", "SaveSettings"})

\* The steps of the not-found path, with or without create-profile.
CreatingOrder(creates) ==
    IF creates
    THEN <<"FindApplicationByName", "FindProfileByName", "CreateProfile",
           "CreateApplication", "SetSetting", "SaveSettings">>
    ELSE <<"FindApplicationByName", "FindProfileByName",
           "CreateApplication", "SetSetting", "SaveSettings">>

\* blacklist_application(e) is running or has returned and its application
\* lookup reported executable-not-found.
C21_Case(t) ==
    /\ cur[t].name = "blacklist_application"
    /\ Steps(t) # <<>>
    /\ Steps(t)[1] = [entry |-> "FindApplicationByName",
                      status |-> NVAPI_EXECUTABLE_NOT_FOUND]

\* C21: in the not-found path of blacklist(e), at every moment, the backend
\* steps made so far are the beginning of find-application, find-profile,
\* create-profile (present exactly when find-profile reported
\* profile-not-found), create-application, set-setting, save-settings; every
\* step but the latest succeeded, so save-settings is invoked at most once and
\* only after set-setting succeeded; and once set-setting succeeded the feature
\* toggle of the profile "Nvidiot - " + e holds the disabled sentinel.
C21_StepsInOrder ==
    \A t \in Threads : C21_Case(t) =>
        LET steps == Steps(t)
            creates == Len(steps) >= 3 /\ steps[2].status = NVAPI_PROFILE_NOT_FOUND
        IN  /\ Len(steps) <= Len(CreatingOrder(creates))
            /\ \A i \in 1..Len(steps) : steps[i].entry = CreatingOrder(creates)[i]
            /\ \A i \in 1..(Len(steps) - 1) : Expected(steps[i])
            /\ Len(steps) >= 3 =>
                  (steps[3].entry = "CreateProfile" <=>
                      steps[2].status = NVAPI_PROFILE_NOT_FOUND)
            /\ NVAPI_OK \in Statuses(t, "SetSetting") =>
                  Toggle(mem, ProfileNameFor(cur[t].exe), SHADOWPLAY_DISABLED)

\* All six steps were made, create-profile among them, and the last one is the
\* save.
C21_Witness ==
    \E t \in Threads :
        /\ C21_Case(t)
        /\ Len(Steps(t)) = 6
        /\ Steps(t)[3] = [entry |-> "CreateProfile", status |-> NVAPI_OK]
        /\ Steps(t)[6] = [entry |-> "SaveSettings", status |-> NVAPI_OK]

\* The profile was there already: five steps, no create-profile.
C21_WitnessExisting ==
    \E t \in Threads :
        /\ C21_Case(t)
        /\ Len(Steps(t)) = 5
        /\ Steps(t)[2] = [entry |-> "FindProfileByName", status |-> NVAPI_OK]
        /\ Steps(t)[5].entry = "SaveSettings"

\* create-application failed and nothing followed it.
C21_WitnessStopped ==
    \E t \in Threads :
        /\ C21_Case(t)
        /\ Done(t)
        /\ Steps(t)[Len(Steps(t))] = [entry |-> "CreateApplication", status |-> NVAPI_ERROR]


---------------------------------------------------------------------------
(* C30: the persisted registry changes only through a successful save *)

\* The commands that write: they end with save_settings.
Writers == {"blacklist_application", "unblacklist_application",
            "create_profile_for_executable"}

\* A writing command of t returned an error.
C30_Case(t) == Done(t) /\ cur[t].name \in Writers /\ ~ret[t].ok

\* A step that changes the persisted registry is the return of a SaveSettings
\* call with NVAPI_OK, and it leaves the in-memory registry on disk.
SavedByStep ==
    disk' # disk =>
        \E t \in Threads :
            /\ Len(log'[t]) = Len(log[t]) + 1
            /\ log'[t][Len(log'[t])] = [entry |-> "SaveSettings", status |-> NVAPI_OK]
            /\ disk' = mem

\* C30: the persisted registry changes only in the step in which a
\* SaveSettings call returns NVAPI_OK; and when one caller runs its commands
\* one after the other, a blacklist_application, unblacklist_application or
\* create_profile_for_executable that returned an error has left the persisted
\* registry exactly as it was when the command was invoked.
C30_OnlySaveWrites ==
    /\ [](\A t \in Threads : C30_Case(t) => disk = pre[t].disk)
    /\ [][SavedByStep]_vars

\* blacklist_application returned an error after it had created the profile
\* in memory: the persisted registry is still the one it started from.
C30_Witness ==
    \E t \in Threads :
        /\ C30_Case(t) /\ cur[t].name = "blacklist_application"
        /\ NVAPI_OK \in Statuses(t, "CreateProfile")
        /\ mem # disk /\ disk = pre[t].disk

\* The save itself failed: the toggle is written in memory and not on disk.
C30_WitnessSaveFailed ==
    \E t \in Threads :
        /\ C30_Case(t) /\ Statuses(t, "SaveSettings") = {NVAPI_ERROR}
        /\ NVAPI_OK \in Statuses(t, "SetSetting")
        /\ mem # disk /\ disk = pre[t].disk

\* create_profile_for_executable returned an error and the disk is untouched.
C30_WitnessCreate ==
    \E t \in Threads :
        /\ C30_Case(t) /\ cur[t].name = "create_profile_for_executable"
        /\ NVAPI_OK \in Statuses(t, "CreateProfile")
        /\ disk = pre[t].disk


---------------------------------------------------------------------------
(* C28: no executable is tracked twice, and of two concurrent blacklists of
   the same executable one wins *)

\* The commands that add to the registry, for one executable the driver does
\* not ship a profile for.
TrackingCommands ==
    {Command("blacklist_application", "game.exe", "", NullHandle),
     Command("unblacklist_application", "game.exe", "", NullHandle),
     Command("create_profile_for_executable", "game.exe", "Q", NullHandle)}

StepTracking(t) ==
    \/ Invoke(t, MaxCommands) /\ cur'[t] \in TrackingCommands
    \/ get_nvapi(t)
    \/ load(t)
    \/ get_session(t)
    \/ create_session(t)
    \/ save_settings(t)
    \/ find_profile_by_name(t)
    \/ create_profile(t)
    \/ find_application(t)
    \/ create_application(t)
    \/ create_profile_for_executable(t)
    \/ set_dword_setting(t)
    \/ blacklist_application(t)
    \/ unblacklist_application(t)

\* Every caller runs one of the tracking commands, all at the same time.
NextTracking == \E t \in Threads : StepTracking(t)

SpecTracking == Init /\ [][NextTracking]_vars

\* How many application entries a registry holds for an executable.
EntryCount(reg, e) ==
    Cardinality(UNION {{<<i, k>> : k \in {n \in 1..Len(reg[i].apps) :
                                            reg[i].apps[n].app_name = e}} :
                       i \in 1..Len(reg)})

\* No two profiles of the registry share a name and no executable has two
\* application entries.
Unique(reg) ==
    /\ \A i, j \in 1..Len(reg) : reg[i].name = reg[j].name => i = j
    /\ \A e \in Executables : EntryCount(reg, e) <= 1

\* The backend refused to create what is there already.
DuplicateRejected(call) ==
    \/ call.entry = "CreateProfile" /\ call.status = NVAPI_PROFILE_NAME_IN_USE
    \/ call.entry = "CreateApplication" /\ call.status = NVAPI_EXECUTABLE_ALREADY_IN_USE

\* Both callers blacklisted the same executable, which had no application
\* entry when either was invoked, and both returned; the entry points are
\* resolved and the backend failed no call but for rejecting a duplicate.
C28_Case ==
    /\ \A t \in Threads :
          /\ Finished(t, "blacklist_application")
          /\ cur[t].exe = cur[1].exe
          /\ ~HasApplication(StartRegistry(t), cur[t].exe)
          /\ \A i \in 1..Len(log[t]) :
                Expected(log[t][i]) \/ DuplicateRejected(log[t][i])
    /\ Resolved({"CreateSession", "LoadSettings", "FindApplicationByName",
                 "FindProfileByName", "CreateProfile", "CreateApplication",
                 "SetSetting", "SaveSettings"})

\* C28: in every reachable state, whatever blacklist_application,
\* unblacklist_application and create_profile_for_executable commands ran,
\* failed part-way or interleaved, the registry (in memory and on disk) holds
\* at most one profile of each name, so at most one named "Nvidiot - " + e, and
\* at most one application entry for every executable e; and when two callers
\* blacklist the same untracked executable concurrently and the backend fails
\* nothing but the creation of a duplicate, at least one of them returns
\* success and e ends bound to a profile whose feature toggle holds the
\* disabled sentinel, in memory and on disk.  What the code adds to the
\* backend's refusal: blacklist_application creates the profile only after it
\* looked the name up and the backend answered that there is none, which is
\* what makes a retry after a call that failed part-way reuse the profile.
C28_TrackedOnce ==
    /\ Unique(mem) /\ Unique(disk)
    /\ \A t \in Threads :
          cur[t].name = "blacklist_application" /\ Invoked(t, "CreateProfile")
              => Statuses(t, "FindProfileByName") = {NVAPI_PROFILE_NOT_FOUND}
    /\ C28_Case =>
          LET e == cur[1].exe
          IN  /\ \E t \in Threads : ret[t].ok /\ ret[t].val.success
              /\ HasApplication(mem, e)
              /\ Toggle(mem, ProfileOfApp(mem, e), SHADOWPLAY_DISABLED)
              /\ disk = mem

\* Two concurrent blacklists of game.exe: one lost the creation of the profile
\* to the other and returned an error, the other succeeded.
C28_Witness ==
    /\ C28_Case /\ NumThreads >= 2
    /\ \E t, u \in Threads :
          /\ NVAPI_PROFILE_NAME_IN_USE \in Statuses(t, "CreateProfile")
          /\ ~ret[t].ok
          /\ ret[u].ok /\ ret[u].val.success
    /\ "Nvidiot - game.exe" \in ProfileNames(mem)

\* One created the profile, the other found it and bound the executable first:
\* the creator's CreateApplication was rejected, the other succeeded.
C28_WitnessApplication ==
    /\ C28_Case /\ NumThreads >= 2
    /\ \E t, u \in Threads :
          /\ NVAPI_OK \in Statuses(t, "CreateProfile")
          /\ NVAPI_EXECUTABLE_ALREADY_IN_USE \in Statuses(t, "CreateApplication")
          /\ ~ret[t].ok
          /\ ret[u].ok /\ ret[u].val.success


---------------------------------------------------------------------------
(* C29: what is on disk when blacklist_application returns success *)

\* This step is the return of a successful blacklist_application of t, while
\* every other caller does nothing or runs reload_settings.
C29_ReturnsSuccess(t) ==
    /\ cur[t].name = "blacklist_application"
    /\ Running(t) /\ Done(t)'
    /\ ret'[t].ok /\ ret'[t].val.success
    /\ \A u \in Threads \ {t} : cur[u].name \in {"none", "reload_settings"}

\* C29: whenever blacklist_application(e) returns success, the persisted
\* registry binds e to a profile whose feature toggle holds the disabled
\* sentinel at the moment of the return, also when a reload_settings of another
\* caller runs between the set-setting step and the save step of the call.
C29_PersistedAtReturn ==
    [][\A t \in Threads :
          C29_ReturnsSuccess(t) =>
              /\ HasApplication(disk', cur[t].exe)
              /\ Toggle(disk', ProfileOfApp(disk', cur[t].exe), SHADOWPLAY_DISABLED)]_vars


---------------------------------------------------------------------------
(* C22: a profile whose info cannot be read is left out *)

\* The answers of the backend to the calls of `entry`, in the order of the calls.
Answers(t, entry) == SelectSeq(log[t], LAMBDA c : c.entry = entry)

\* The entries of `reported` whose info read, the call at the same position of
\* `infos`, returned NVAPI_OK.
RECURSIVE Readable(_, _)
Readable(reported, infos) ==
    IF reported = <<>> \/ infos = <<>> THEN <<>>
    ELSE (IF Head(infos).status = NVAPI_OK THEN <<Head(reported)>> ELSE <<>>)
         \o Readable(Tail(reported), Tail(infos))

\* enumerate_profiles returned after the backend handed out every handle: its
\* EnumProfiles calls were answered with NVAPI_OK and, at the end, with
\* end-of-enumeration.
C22_Case(t) ==
    /\ Finished(t, "enumerate_profiles")
    /\ NVAPI_END_ENUMERATION \in Statuses(t, "EnumProfiles")
    /\ Statuses(t, "EnumProfiles") \subseteq {NVAPI_OK, NVAPI_END_ENUMERATION}

\* C22: in enumerate_profiles, a profile whose handle was obtained and whose
\* info read returns a status other than NVAPI_OK is left out of the result,
\* and the enumeration goes on with the next index: the info of every profile
\* is asked for, every profile whose info was read is returned, in order, and
\* the call returns Ok.
C22_SkipsUnreadable ==
    \A t \in Threads : C22_Case(t) =>
        /\ Len(Answers(t, "GetProfileInfo")) = Len(mem)
        /\ ret[t] = Ok(Readable(Reported(mem), Answers(t, "GetProfileInfo")))

\* The info read of the second of three profiles failed: the first and the
\* third were returned.
C22_Witness ==
    \E t \in Threads :
        /\ C22_Case(t)
        /\ Len(Answers(t, "GetProfileInfo")) = 3
        /\ Answers(t, "GetProfileInfo")[2].status = NVAPI_ERROR
        /\ ret[t].ok
        /\ Len(ret[t].val) = 2
        /\ ret[t].val[1].name = "Base" /\ ret[t].val[2].name = "Q"

\* The info read of the last profile failed, after which the backend was still
\* asked for the next index.
C22_WitnessLast ==
    \E t \in Threads :
        /\ C22_Case(t)
        /\ Answers(t, "GetProfileInfo")[3].status = NVAPI_ERROR
        /\ log[t][Len(log[t])] = [entry |-> "EnumProfiles", status |-> NVAPI_END_ENUMERATION]
        /\ ret[t].ok /\ Len(ret[t].val) = 2

---------------------------------------------------------------------------
(* C23: the indices enumerate_profiles asks for, and what ends it *)

\* The frame of enumerate_profiles of t, while it runs (it calls no function).
EnumeratingProfiles(t) == Running(t) /\ Top(t).fn = "enumerate_profiles"

\* enumerate_profiles returned after it had reached the backend.
C23_Case(t) ==
    /\ Done(t)
    /\ cur[t].name = "enumerate_profiles"
    /\ Invoked(t, "EnumProfiles")

\* C23: enumerate_profiles asks for the indices 0, 1, 2, ... in ascending order
\* without skipping or repeating one: the index it asks for is the number of
\* EnumProfiles calls answered before, all of them with NVAPI_OK.  The first
\* answer other than NVAPI_OK ends it and is its last backend call:
\* end-of-enumeration makes it return Ok, any other status makes it return
\* NvApiStatus with that code and none of the profiles collected so far.
C23_IndicesAndEnd ==
    \A t \in Threads :
        LET enums == Answers(t, "EnumProfiles")
            last == log[t][Len(log[t])]
        IN  /\ EnumeratingProfiles(t) /\ Top(t).pc = "enum" =>
                  /\ Top(t).index = Len(enums)
                  /\ \A i \in 1..Len(enums) : enums[i].status = NVAPI_OK
            /\ EnumeratingProfiles(t) /\ Top(t).pc = "info" =>
                  /\ Top(t).index = Len(enums) - 1
                  /\ \A i \in 1..Len(enums) : enums[i].status = NVAPI_OK
            /\ C23_Case(t) =>
                  /\ last.entry = "EnumProfiles"
                  /\ last.status # NVAPI_OK
                  /\ \A i \in 1..(Len(enums) - 1) : enums[i].status = NVAPI_OK
                  /\ last.status = NVAPI_END_ENUMERATION => ret[t].ok
                  /\ last.status # NVAPI_END_ENUMERATION =>
                        ret[t] = Err(NvApiError("NvApiStatus", last.status, ""))

\* The handle fetch at index 2 failed after two profiles had been collected:
\* the call returned the status and no profile.
C23_Witness ==
    \E t \in Threads :
        /\ C23_Case(t)
        /\ Len(Answers(t, "EnumProfiles")) = 3
        /\ Len(Answers(t, "GetProfileInfo")) = 2
        /\ Statuses(t, "GetProfileInfo") = {NVAPI_OK}
        /\ ret[t] = Err(NvApiError("NvApiStatus", NVAPI_ERROR, ""))

\* The sentinel at index 3 ended the enumeration of three profiles with Ok.
C23_WitnessEnd ==
    \E t \in Threads :
        /\ C23_Case(t)
        /\ Len(Answers(t, "EnumProfiles")) = 4
        /\ ret[t].ok /\ Len(ret[t].val) = 3

\* The call for index 2 is in flight.
C23_WitnessAsking ==
    \E t \in Threads :
        /\ cur[t].name = "enumerate_profiles"
        /\ EnumeratingProfiles(t) /\ Top(t).pc = "enum" /\ Top(t).index = 2


---------------------------------------------------------------------------
(* C24: enumerate_applications pages through the applications in order *)

\* The command of t is enumerate_applications and it runs; its frame is the
\* lowest of the stack, below the frames of the calls it makes.
Paging(t) == cur[t].name = "enumerate_applications" /\ Running(t)

PagingFrame(t) == stack[t][Len(stack[t])]

\* The applications of the profile the command of t enumerates.
Paged(t) == mem[ProfileAt(mem, cur[t].h)].apps

\* `entries` are the first applications of `apps`, in order.
IsPrefix(entries, apps) ==
    /\ Len(entries) <= Len(apps)
    /\ \A k \in 1..Len(entries) :
          /\ entries[k].executable = apps[k].app_name
          /\ entries[k].name = apps[k].user_friendly_name

\* C24: enumerate_applications asks for its first page at index 0 and for every
\* later page at the index advanced by exactly the count the backend returned,
\* which is the number of applications collected so far; a page holds at most
\* 32 applications; and what it collects and returns is always an in-order
\* prefix of the applications of the profile, none twice and none skipped, also
\* when the backend returns pages shorter than 32.
C24_PagesInOrder ==
    \A t \in Threads :
        /\ Paging(t) /\ PagingFrame(t).pc = "batch" =>
              /\ PagingFrame(t).index = Len(PagingFrame(t).items)
              /\ ~Invoked(t, "EnumApplications") => PagingFrame(t).index = 0
              /\ IsPrefix(PagingFrame(t).items, Paged(t))
        /\ Paging(t) /\ PagingFrame(t).pc = "status" =>
              LET f == PagingFrame(t)
              IN  /\ f.count <= BatchSize
                  /\ f.i < f.count
                  /\ f.index + f.i = Len(f.items)
                  /\ f.page = SubSeq(Paged(t), f.index + 1, f.index + f.count)
                  /\ IsPrefix(f.items, Paged(t))
        /\ Finished(t, "enumerate_applications") /\ Invoked(t, "GetProfileInfo") =>
              /\ ret[t].ok
              /\ IsPrefix(ret[t].val, Paged(t))

\* Three pages of one application each were asked for and answered, and the
\* call returned the three applications.
C24_Witness ==
    \E t \in Threads :
        /\ Finished(t, "enumerate_applications")
        /\ Len(Answers(t, "EnumApplications")) = 3
        /\ Statuses(t, "EnumApplications") = {NVAPI_OK}
        /\ ret[t].ok /\ Len(ret[t].val) = 3
        /\ ret[t].val[3].executable = "t3.exe"

\* A page of two is being read after a page of one.
C24_WitnessShort ==
    \E t \in Threads :
        /\ Paging(t) /\ PagingFrame(t).pc = "status"
        /\ PagingFrame(t).index = 1 /\ PagingFrame(t).count = 2

\* A page without applications ended the call after a page of two: the call
\* returned the first two applications.
C24_WitnessPrefix ==
    \E t \in Threads :
        /\ Finished(t, "enumerate_applications")
        /\ Answers(t, "EnumApplications") =
              <<[entry |-> "EnumApplications", status |-> NVAPI_OK],
                [entry |-> "EnumApplications", status |-> NVAPI_OK]>>
        /\ ret[t].ok /\ Len(ret[t].val) = 2


---------------------------------------------------------------------------
(* C25: what ends the paging of enumerate_applications *)

\* In this step the backend answers the page request of enumerate_applications.
PageAnswered(t) ==
    /\ Paging(t) /\ PagingFrame(t).pc = "batch"
    /\ Len(log'[t]) = Len(log[t]) + 1

\* The page request that was answered last ended the call of t: the backend
\* returned `status` to it.
EndedBy(t, status) ==
    /\ Finished(t, "enumerate_applications")
    /\ log[t] # <<>>
    /\ log[t][Len(log[t])] = [entry |-> "EnumApplications", status |-> status]

\* C25: when a page request of enumerate_applications is answered with an
\* error status, with end-of-enumeration or with a count of zero, the
\* enumeration stops there and the call returns Ok with exactly the
\* applications collected from the earlier pages, none of the failing page; a
\* page that does not end the call holds at least one application; and once
\* enumerate_applications has reached the backend, no status a backend
\* enumeration call returns makes it return an error.
C25_StopsWithEarlierPages ==
    /\ [](\A t \in Threads :
             Finished(t, "enumerate_applications") /\ Invoked(t, "GetProfileInfo")
                 => ret[t].ok)
    /\ [][\A t \in Threads :
             PageAnswered(t) =>
                 LET status == log'[t][Len(log'[t])].status
                 IN  /\ status # NVAPI_OK => Done(t)'
                     /\ Done(t)' => ret'[t] = Ok(PagingFrame(t).items)
                     /\ ~Done(t)' => PagingFrame(t)'.count > 0]_vars

\* A page request failed after a page of two applications: the call returned
\* those two.
C25_Witness ==
    \E t \in Threads :
        /\ EndedBy(t, NVAPI_ERROR)
        /\ Len(Answers(t, "EnumApplications")) = 2
        /\ ret[t].ok /\ Len(ret[t].val) = 2

\* The first page request failed: the call returned Ok and no application.
C25_WitnessFirst ==
    \E t \in Threads :
        /\ EndedBy(t, NVAPI_ERROR)
        /\ Len(Answers(t, "EnumApplications")) = 1
        /\ cur[t].h = "T"
        /\ ret[t] = Ok(<<>>)

\* The sentinel ended the call, whose count read had failed.
C25_WitnessEnd ==
    \E t \in Threads :
        /\ EndedBy(t, NVAPI_END_ENUMERATION)
        /\ ret[t].ok /\ Len(ret[t].val) = 3

\* A page without applications ended the call after a page of one.
C25_WitnessZero ==
    \E t \in Threads :
        /\ EndedBy(t, NVAPI_OK)
        /\ Len(Answers(t, "EnumApplications")) = 2
        /\ ret[t].ok /\ Len(ret[t].val) = 1


---------------------------------------------------------------------------
(* C26: enumerate_applications when the application count cannot be read *)

\* The command of t is enumerate_applications and the backend failed the read
\* of the profile info, which holds the application count.
CountUnread(t) ==
    /\ cur[t].name = "enumerate_applications"
    /\ Statuses(t, "GetProfileInfo") = {NVAPI_ERROR}

\* How far the call of t is from its return: nine steps for every application
\* it has not collected yet, and the steps left in the collection of one (the
\* page request, get_shadowplay_status, get_dword_setting with its lock, unlock,
\* call and return, the match of get_shadowplay_status, the push).
Remaining(t) ==
    LET top == Top(t)
        phase == IF top.fn = "enumerate_applications"
                 THEN (IF top.pc = "batch" THEN 8 ELSE 1)
                 ELSE IF top.fn = "get_shadowplay_status"
                 THEN (IF top.pc = "start" THEN 7 ELSE 2)
                 ELSE IF top.pc = "lock" THEN 6
                 ELSE IF top.pc = "unlock" THEN 5
                 ELSE IF top.pc = "call" THEN 4
                 ELSE 3
    IN  IF ~Running(t) THEN 0
        ELSE 9 * (Len(Paged(t)) - Len(PagingFrame(t).items)) + phase

\* C26: when the read of the application count fails, enumerate_applications
\* still enumerates: it takes the count to be u32::MAX and keeps asking for
\* pages, so that the call that ends it is a page request, answered with
\* end-of-enumeration, with a count of zero or with an error; it returns Ok;
\* when it is the sentinel that ends it, the result holds every application of
\* the profile, in order.  And the call terminates: over the finite registry
\* of the backend, every step it takes brings it closer to its return
\* (Remaining decreases and is never negative) and it never waits (a step is
\* enabled; where the loop pushes the application it has read, the step is the
\* unconditional if/else of NextApplication), so that under FairPages, where
\* the caller keeps taking its steps, it returns.
C26_EnumeratesAnyway ==
    /\ [](\A t \in Threads :
             /\ CountUnread(t) /\ Running(t) =>
                   /\ PagingFrame(t).num = U32_MAX
                   /\ Remaining(t) >= 0
                   /\ ~At(t, "enumerate_applications", "status") => ENABLED NextPages
             /\ CountUnread(t) /\ Done(t) =>
                   /\ log[t][Len(log[t])].entry = "EnumApplications"
                   /\ ret[t].ok
                   /\ IsPrefix(ret[t].val, Paged(t))
                   /\ EndedBy(t, NVAPI_END_ENUMERATION) =>
                         Len(ret[t].val) = Len(Paged(t)))
    /\ [][\A t \in Threads :
             CountUnread(t) /\ Running(t) => Remaining(t)' < Remaining(t)]_vars

\* The count of T was not read; pages of one, of two and the sentinel followed,
\* and the call returned the three applications.
C26_Witness ==
    \E t \in Threads :
        /\ CountUnread(t)
        /\ EndedBy(t, NVAPI_END_ENUMERATION)
        /\ Len(Answers(t, "EnumApplications")) = 3
        /\ ret[t].ok /\ Len(ret[t].val) = 3

\* The count of the profile without applications was not read: the first page
\* request was answered with the sentinel.
C26_WitnessNone ==
    \E t \in Threads :
        /\ CountUnread(t) /\ cur[t].h = "Base"
        /\ EndedBy(t, NVAPI_END_ENUMERATION)
        /\ ret[t] = Ok(<<>>)

\* The count was not read and a page request is in flight at index 2.
C26_WitnessPaging ==
    \E t \in Threads :
        /\ CountUnread(t) /\ Running(t)
        /\ PagingFrame(t).pc = "batch" /\ PagingFrame(t).index = 2


---------------------------------------------------------------------------
(* C27: the blacklist flag belongs to the profile *)

\* enumerate_applications(profile) returned a list, and the backend answered
\* the read of the feature toggle made for each entry, with a value or with
\* setting-not-found.
C27_Case(t) ==
    /\ Finished(t, "enumerate_applications")
    /\ ret[t].ok
    /\ Len(Answers(t, "GetSetting")) = Len(ret[t].val)
    /\ Statuses(t, "GetSetting") \subseteq {NVAPI_OK, NVAPI_SETTING_NOT_FOUND}

\* The call before the current one was a blacklist_application that returned
\* success = true for an application of the profile now enumerated.
AfterBlacklist(t) ==
    /\ past[t] # <<>>
    /\ past[t][1].command.name = "blacklist_application"
    /\ past[t][1].result.ok
    /\ past[t][1].result.val.success
    /\ HasApplication(mem, past[t][1].command.exe)
    /\ ProfileOfApp(mem, past[t][1].command.exe) = cur[t].h

\* C27: the blacklist flag is a property of the profile, not of the application
\* entry.  When no write interleaves and the backend answers every read of the
\* feature toggle, every entry of one enumerate_applications(profile) result
\* carries the same is_blacklisted value, which is whether the toggle of the
\* profile holds the disabled sentinel; and after a successful
\* blacklist_application(e), every application that shares the profile of e is
\* reported as blacklisted, not only e.
C27_FlagOfTheProfile ==
    \A t \in Threads : C27_Case(t) =>
        /\ \A i \in 1..Len(ret[t].val) :
              ret[t].val[i].is_blacklisted = Toggle(mem, cur[t].h, SHADOWPLAY_DISABLED)
        /\ AfterBlacklist(t) =>
              \A i \in 1..Len(ret[t].val) : ret[t].val[i].is_blacklisted

\* After blacklist_application("s1.exe") succeeded, the two applications of S,
\* the one that was blacklisted and the other, were both reported as blacklisted.
C27_Witness ==
    \E t \in Threads :
        /\ C27_Case(t) /\ AfterBlacklist(t)
        /\ Len(ret[t].val) = 2
        /\ ret[t].val[1].executable = "s1.exe" /\ ret[t].val[1].is_blacklisted
        /\ ret[t].val[2].executable = "s2.exe" /\ ret[t].val[2].is_blacklisted

\* Before any blacklist, the two entries carried the same flag, false.
C27_WitnessNotBlacklisted ==
    \E t \in Threads :
        /\ C27_Case(t) /\ past[t] = <<>>
        /\ Len(ret[t].val) = 2
        /\ ~ret[t].val[1].is_blacklisted /\ ~ret[t].val[2].is_blacklisted

\* Outside the case: the backend failed the read made for one entry, and the
\* two entries of the blacklisted profile carry different flags.
C27_WitnessFailedRead ==
    \E t \in Threads :
        /\ Finished(t, "enumerate_applications") /\ AfterBlacklist(t)
        /\ NVAPI_ERROR \in Statuses(t, "GetSetting")
        /\ ret[t].ok /\ Len(ret[t].val) = 2
        /\ ret[t].val[1].is_blacklisted # ret[t].val[2].is_blacklisted


---------------------------------------------------------------------------
(* C31: a command that fails after it created a profile does not roll back *)

\* One caller creates for game.exe, and then runs a command that saves or one
\* that reloads.
RollbackCommands ==
    {Command("blacklist_application", "game.exe", "", NullHandle),
     Command("create_profile_for_executable", "game.exe", "Q", NullHandle),
     Command("unblacklist_application", "app.exe", "", NullHandle),
     Command("reload_settings", "", "", NullHandle)}

NextRollback ==
    \/ Call(1, RollbackCommands, 1)
    \/ get_nvapi(1)
    \/ load(1)
    \/ get_session(1)
    \/ create_session(1)
    \/ save_settings(1)
    \/ reload_settings(1)
    \/ find_profile_by_name(1)
    \/ create_profile(1)
    \/ find_application(1)
    \/ create_application(1)
    \/ create_profile_for_executable(1)
    \/ set_dword_setting(1)
    \/ blacklist_application(1)
    \/ unblacklist_application(1)

SpecRollback == Init /\ [][NextRollback]_vars

\* Every profile of `before`, with every application entry it holds, is in
\* `after`.
Kept(before, after) ==
    \A i \in 1..Len(before) :
        /\ before[i].name \in ProfileNames(after)
        /\ AppNames(before[i]) \subseteq AppNames(after[ProfileAt(after, before[i].name)])

\* The commands that create a profile, and the name of the profile.
Creators == {"blacklist_application", "create_profile_for_executable"}

Created(c) ==
    IF c.name = "blacklist_application" THEN ProfileNameFor(c.exe) ELSE c.pname

\* The command of t created its profile and then returned an error.
C31_Case(t) ==
    /\ Done(t) /\ cur[t].name \in Creators /\ ~ret[t].ok
    /\ NVAPI_OK \in Statuses(t, "CreateProfile")

\* The command before the current one of t was a creating command that
\* returned an error, and the current one has returned after a successful save.
C31_SavedLater(t) ==
    /\ Done(t) /\ past[t] # <<>>
    /\ past[t][1].command.name \in Creators
    /\ ~past[t][1].result.ok
    /\ NVAPI_OK \in Statuses(t, "SaveSettings")

\* A step that does not complete a LoadSettings call keeps every profile and
\* application entry of the in-memory registry.
KeptByStep ==
    \/ Kept(mem, mem')
    \/ \E t \in Threads :
          /\ Len(log'[t]) = Len(log[t]) + 1
          /\ log'[t][Len(log'[t])].entry = "LoadSettings"

C31_Witness ==
    \E t \in Threads :
        /\ C31_Case(t) /\ cur[t].name = "blacklist_application"
        /\ Statuses(t, "CreateApplication") = {NVAPI_ERROR}
        /\ ProfileNameFor(cur[t].exe) \in ProfileNames(mem)
        /\ ~HasApplication(mem, cur[t].exe)
        /\ ProfileNameFor(cur[t].exe) \notin ProfileNames(disk)

C31_WitnessApplication ==
    \E t \in Threads :
        /\ C31_SavedLater(t)
        /\ past[t][1].command.name = "create_profile_for_executable"
        /\ past[t][1].result.err.kind = "SaveSettingsFailed"
        /\ "Q" \notin ProfileNames(pre[t].disk)
        /\ "Q" \in ProfileNames(disk)
        /\ "game.exe" \in AppNames(disk[ProfileAt(disk, "Q")])

\* A reload_settings between the failure and the next save drops the profile.
C31_WitnessReloaded ==
    \E t \in Threads :
        /\ Finished(t, "reload_settings") /\ ret[t].ok
        /\ past[t] # <<>> /\ past[t][1].command.name \in Creators
        /\ ~past[t][1].result.ok
        /\ ~Kept(pre[t].mem, mem)


---------------------------------------------------------------------------
(* C32: how many session handles are alive *)

\* The handles in use: the one in the session cell, and the one a running
\* create_session got from create-session and has not given up yet.
InUse ==
    (IF session.state = "done" THEN {session.handle} ELSE {})
        \cup {Top(t).sess : t \in {u \in Threads :
                                     \/ At(u, "create_session", "loaded")
                                     \/ At(u, "create_session", "destroyed")}}

\* The handles that are alive and that nothing holds any more.
Leaked == alive \ InUse

\* This step completes a backend call of `entry` with a non-success status.
Refused(entry) ==
    \E t \in Threads :
        /\ Len(log'[t]) = Len(log[t]) + 1
        /\ log'[t][Len(log'[t])].entry = entry
        /\ log'[t][Len(log'[t])].status # NVAPI_OK

\* A handle is left behind only by a load-settings that failed while
\* destroy-session is unresolved, or by a destroy-session the backend refused;
\* a handle left behind stays alive.
LeakedByStep ==
    /\ Leaked \subseteq Leaked'
    /\ Leaked' # Leaked =>
          \/ Refused("LoadSettings") /\ "DestroySession" \notin Api
          \/ Refused("DestroySession")

\* C32 as the spec states it: at every moment, under any sequence of
\* get_session attempts including failed ones followed by retries, at most one
\* session handle created by create-session is alive, whichever entry points
\* the backend resolves.
C32_Original == Cardinality(alive) <= 1

\* C32, amended: at every moment at most one session handle is in use (held by
\* the session cell or by the running create_session), and every handle in use
\* is alive; a handle is left alive behind a failed get_session exactly in a
\* step where load-settings failed while destroy-session is unresolved or
\* where the backend refused the destroy-session call, and each retry after
\* such a step adds a handle to those alive.
C32_Amended ==
    /\ [](/\ Cardinality(InUse) <= 1
          /\ InUse \subseteq alive
          /\ Cardinality(alive) <= 1 + Cardinality(Leaked))
    /\ [][LeakedByStep]_vars

\* A failed attempt was cleaned up and the retry succeeded: one handle is
\* alive, the second one the backend handed out.
C32_Witness ==
    /\ session.state = "done"
    /\ session.handle = 2
    /\ alive = {2}
    /\ Resolved({"DestroySession"})

\* Destroy-session is unresolved: the handle of the failed attempt and the one
\* of the retry are both alive.
C32_WitnessTwo ==
    /\ session.state = "done"
    /\ Cardinality(alive) = 2
    /\ Leaked # {}
    /\ "DestroySession" \notin Api

\* The backend refused the destroy-session call: the handle stays alive.
C32_WitnessRefused ==
    /\ Resolved({"DestroySession"})
    /\ Leaked # {}
    /\ \E t \in Threads : Done(t) /\ Statuses(t, "DestroySession") = {NVAPI_ERROR}


---------------------------------------------------------------------------
(* C33: a session that could not be created is asked for again *)

SessionFailures == {"SessionCreationFailed", "LoadSettingsFailed"}

\* The command of t returned the error of a get_session whose create-session
\* or load-settings reported a non-success status.
SessionFailed(t) ==
    /\ Done(t)
    /\ \/ IsErr(ret[t], "SessionCreationFailed")
       \/ /\ IsErr(ret[t], "LoadSettingsFailed")
          /\ \E i \in 1..Len(log[t]) : LoadFailedAt(t, i)

\* The command before the current one of t failed for want of a session: it
\* returned one of the two errors and left the session cell empty.
C33_Case(t) ==
    /\ Done(t) /\ past[t] # <<>>
    /\ ~past[t][1].result.ok
    /\ past[t][1].result.err.kind \in SessionFailures
    /\ ~pre[t].loaded

\* The calls of the command of t start with create-session, followed by
\* load-settings when create-session succeeded.
CreatesAgain(t) ==
    /\ log[t] # <<>>
    /\ log[t][1].entry = "CreateSession"
    /\ log[t][1].status = NVAPI_OK =>
          /\ Len(log[t]) >= 2
          /\ log[t][2].entry = "LoadSettings"

\* Every function of t that holds a session handle holds the one of the cell.
UsesTheSession(t) ==
    \A k \in 1..Len(stack[t]) :
        (stack[t][k].fn # "create_session" /\ stack[t][k].sess # 0) =>
            /\ session.state = "done"
            /\ stack[t][k].sess = session.handle

\* C33: when get_session fails because create-session or load-settings
\* returned a non-success status, the session cell is empty afterwards; the
\* next command, which needs the session, invokes create-session again, and
\* load-settings when that create-session succeeds; a command that starts when
\* the cell is set invokes neither, the cell never changes once it is set, and
\* every function that holds a session handle holds the one of the cell.
C33_FailureIsNotCached ==
    /\ [](\A t \in Threads :
            /\ SessionFailed(t) => session = [state |-> "uninit", handle |-> 0]
            /\ C33_Case(t) => CreatesAgain(t)
            /\ (pre[t].loaded /\ cur[t].name # "none") =>
                  /\ ~Invoked(t, "CreateSession")
                  /\ session.state = "done"
            /\ UsesTheSession(t))
    /\ [][session.state = "done" => session' = session]_vars

\* A command failed because create-session reported an error, and the next
\* command created the session and returned success.
C33_Witness ==
    \E t \in Threads :
        /\ C33_Case(t)
        /\ past[t][1].result.err.kind = "SessionCreationFailed"
        /\ ret[t].ok
        /\ SubSeq(log[t], 1, 2) = <<[entry |-> "CreateSession", status |-> NVAPI_OK],
                                    [entry |-> "LoadSettings", status |-> NVAPI_OK]>>
        /\ session.state = "done"

\* The settings did not load, and the next command got the second handle.
C33_WitnessLoad ==
    \E t \in Threads :
        /\ C33_Case(t)
        /\ past[t][1].result.err.kind = "LoadSettingsFailed"
        /\ ret[t].ok
        /\ session = [state |-> "done", handle |-> 2]

\* The retry failed as well: the cell is still empty.
C33_WitnessAgain ==
    \E t \in Threads :
        /\ C33_Case(t) /\ SessionFailed(t)
        /\ session.state = "uninit"

\* A command that started with the session set uses its handle for a call.
C33_WitnessUses ==
    \E t \in Threads :
        /\ pre[t].loaded /\ Running(t)
        /\ Top(t).pc = "ret" /\ Top(t).sess = session.handle
        /\ past[t] # <<>> /\ past[t][1].result.ok


---------------------------------------------------------------------------
(* C34: concurrent commands and the session lock *)

\* The commands the claim names: list, blacklist, unblacklist, create a
\* profile, reload.
ConcurrentCommands ==
    {Command("get_all_applications", "", "", NullHandle),
     Command("blacklist_application", "game.exe", "", NullHandle),
     Command("unblacklist_application", "app.exe", "", NullHandle),
     Command("create_profile_for_executable", "game.exe", "Q", NullHandle),
     Command("reload_settings", "", "", NullHandle)}

\* lib.rs: t invokes one of `commands`, at most `limit` of them.
Dispatch(t, commands, limit) ==
    /\ ~Running(t)
    /\ ops[t] < limit
    /\ ops' = [ops EXCEPT ![t] = @ + 1]
    /\ \E c \in commands :
        /\ cur' = [cur EXCEPT ![t] = c]
        /\ stack' = [stack EXCEPT ![t] = <<FrameOf(c)>>]
    /\ pre' = [pre EXCEPT ![t] = [mem |-> mem, disk |-> disk,
                                  loaded |-> session.state = "done"]]
    /\ ret' = [ret EXCEPT ![t] = NoResult]
    /\ log' = [log EXCEPT ![t] = <<>>]
    /\ visits' = [visits EXCEPT ![t] = <<>>]
    /\ UNCHANGED <<cells, backend, inflight, prev, past>>

\* The function table is loaded with every entry point resolved (a check of the
\* availability has succeeded); no session exists yet.
InitReady ==
    /\ nvapi = [state |-> "done", value |-> Ok(EntryPoints)]
    /\ session = [state |-> "uninit", handle |-> 0]
    /\ lock = 0
    /\ alive = {}
    /\ nextHandle = 1
    /\ mem = NoRegistry
    /\ loads = 1
    /\ inits = 1
    /\ short = {}
    /\ \E s \in InitialSettings : disk = InitialRegistry(s)
    /\ stack = [t \in Threads |-> <<>>]
    /\ Quiet

StepConcurrent(t) ==
    \/ Dispatch(t, ConcurrentCommands, MaxCommands)
    \/ get_nvapi(t)
    \/ get_session(t)
    \/ create_session(t)
    \/ save_settings(t)
    \/ reload_settings(t)
    \/ find_profile_by_name(t)
    \/ create_profile(t)
    \/ find_application(t)
    \/ create_application(t)
    \/ create_profile_for_executable(t)
    \/ enumerate_profiles(t)
    \/ enumerate_applications(t)
    \/ get_all_applications(t)
    \/ get_dword_setting(t)
    \/ set_dword_setting(t)
    \/ get_shadowplay_status(t)
    \/ blacklist_application(t)
    \/ unblacklist_application(t)

\* Every caller runs one of these commands, all at the same time.
NextConcurrent == \E t \in Threads : StepConcurrent(t)

SpecConcurrent == InitReady /\ [][NextConcurrent]_vars

\* Every caller that can take a step eventually takes one; a backend call that
\* was begun returns.
FairConcurrent == SpecConcurrent /\ \A t \in Threads : WF_vars(StepConcurrent(t))


\* t waits: for the session lock, for the session another caller is creating,
\* or for the function table another caller is loading.
Blocked(t) ==
    /\ Running(t)
    /\ \/ Top(t).pc = "lock" /\ lock # 0
       \/ Top(t).pc = "get_session" /\ session.state = "running"
       \/ Top(t).pc = "get_nvapi" /\ nvapi.state = "running"

\* The lock is held only between the step that takes it and the step that
\* copies the handle out and gives it back: its holder stands at that step, in
\* no backend call, and no other function of the holder is about to take it.
HeldToCopy ==
    \A t \in Threads :
        lock = t =>
            /\ Running(t) /\ Top(t).pc = "unlock"
            /\ inflight[t] = NoCall
            /\ session.state = "done"
            /\ \A k \in 2..Len(stack[t]) : stack[t][k].pc \notin {"lock", "unlock"}

\* The most profiles, and the most applications of one profile, the registry
\* holds: those it starts with and one for each command.
ProfCap == Len(InitialRegistry({})) + NumThreads * MaxCommands

\* The labels of a function, the last one first.
Labels(fn) ==
    CASE fn = "create_session" ->
            <<"destroyed", "loaded", "created", "call", "get_nvapi">>
      [] fn = "get_shadowplay_status" -> <<"match", "start">>
      [] fn = "unblacklist_application" -> <<"saved", "set", "match", "start">>
      [] fn = "create_profile_for_executable" ->
            <<"saved", "created_application", "created_profile", "start">>
      [] fn = "blacklist_application" ->
            <<"saved_existing", "saved_created", "set_existing", "set_created",
              "application", "profile", "match_profile", "match", "start">>
      [] fn = "get_all_applications" -> <<"apps", "found", "profiles", "start">>
      [] fn = "enumerate_profiles" ->
            <<"info", "enum", "call", "unlock", "lock", "created", "get_session",
              "get_nvapi">>
      [] fn = "enumerate_applications" ->
            <<"status", "batch", "info", "call", "unlock", "lock", "created",
              "get_session", "get_nvapi">>
      [] OTHER ->
            <<"ret", "call", "unlock", "lock", "created", "get_session", "get_nvapi">>

\* How far a label is from the return of its function.  A function that
\* stands at get_session with nothing above it may still create the session.
Distance(f, top) ==
    LET labels == Labels(f.fn)
        at == CHOOSE i \in 1..Len(labels) : labels[i] = f.pc
    IN  IF f.pc = "get_session" /\ ~top THEN at - 1
        ELSE IF f.fn = "get_all_applications" /\ at > 2 THEN at + 2 * ProfCap
        ELSE at

\* The turns of its loop a function has left, twice.
Turns(f) ==
    CASE f.fn = "enumerate_profiles" -> 2 * (ProfCap + 1 - f.index)
      [] f.fn = "enumerate_applications" -> 2 * (ProfCap - Len(f.items))
      [] f.fn = "get_all_applications" -> 2 * (Len(f.profiles) - f.index)
      [] OTHER -> 0

\* The weight of one label of a function: more than all the steps of every
\* function it calls.
LeafWeight == 8 * (9 + 2 * (ProfCap + 1))

Weight(fn) ==
    CASE fn = "create_session" -> 1
      [] fn \in {"get_shadowplay_status", "unblacklist_application",
                 "create_profile_for_executable", "blacklist_application"} ->
            2 * LeafWeight
      [] fn = "enumerate_applications" -> 8 * LeafWeight
      [] fn = "get_all_applications" -> 16 * LeafWeight * (10 + 2 * ProfCap)
      [] OTHER -> 8

\* The steps a function has left, weighted.
FrameRank(f, top) == Weight(f.fn) * (Distance(f, top) + Turns(f))

RECURSIVE FramesRank(_, _)
FramesRank(frames, top) ==
    IF frames = <<>> THEN 0
    ELSE FrameRank(Head(frames), top) + FramesRank(Tail(frames), FALSE)

\* More than the steps of any command.
CommandWeight == 2 * Weight("get_all_applications") * (4 + 4 * ProfCap)

RECURSIVE RankOf(_)
RankOf(threads) ==
    IF threads = {} THEN 0
    ELSE LET t == CHOOSE t \in threads : TRUE
         IN  (MaxCommands - ops[t]) * CommandWeight
                 + FramesRank(stack[t], TRUE)
                 + RankOf(threads \ {t})

\* The steps the commands have left, those not yet invoked included.
Rank == RankOf(Threads)

C34_WitnessCreating ==
    \E t, u \in Threads :
        /\ Blocked(u) /\ Top(u).pc = "get_session"
        /\ Running(t) /\ Top(t).fn = "create_session" /\ inflight[t] # NoCall

\* Both commands have returned: a list that ran while a blacklist created a
\* profile.
C34_WitnessReturned ==
    \E t, u \in Threads :
        /\ Finished(t, "get_all_applications") /\ ret[t].ok
        /\ Finished(u, "blacklist_application") /\ ret[u].ok
        /\ NVAPI_OK \in Statuses(u, "CreateProfile")
        /\ Rank = 0


---------------------------------------------------------------------------
(* C35: the read operations write nothing *)

ReadOperations ==
    {"enumerate_profiles", "enumerate_applications", "get_all_applications",
     "find_application", "find_profile_by_name", "get_shadowplay_status",
     "check_nvapi"}

\* The read operations, on the registry to list.
ReadCommands ==
    {Command("enumerate_profiles", "", "", NullHandle),
     Command("get_all_applications", "", "", NullHandle),
     Command("check_nvapi", "", "", NullHandle)}
    \cup {Command("enumerate_applications", "", h, h) : h \in {"P", "Q"}}
    \cup {Command("find_application", e, "", NullHandle) : e \in Executables}
    \cup {Command("find_profile_by_name", "", n, NullHandle) : n \in {"Q", "R"}}
    \cup {Command("get_shadowplay_status", "", "", h) : h \in {"P", "Q"}}

\* A write that is not saved: the disabled sentinel in P's feature toggle.
UnsavedWrite == Command("set_dword_setting", "", "", "P")

NextReads ==
    \/ Call(1, ReadCommands \cup {UnsavedWrite}, 0)
    \/ get_nvapi(1)
    \/ load(1)
    \/ get_session(1)
    \/ create_session(1)
    \/ enumerate_profiles(1)
    \/ enumerate_applications(1)
    \/ get_all_applications(1)
    \/ find_profile_by_name(1)
    \/ find_application(1)
    \/ get_dword_setting(1)
    \/ set_dword_setting(1)
    \/ get_shadowplay_status(1)

\* One caller: read operations, between writes that are not saved.
SpecReads == InitEnum /\ [][NextReads]_vars

\* The entry points that change the in-memory or the persisted registry.
WritingEntryPoints ==
    {"CreateProfile", "CreateApplication", "SetSetting", "SaveSettings",
     "LoadSettings"}

\* The current command of t is a read operation that started with the session
\* established.
C35_Case(t) == cur[t].name \in ReadOperations /\ pre[t].loaded

\* C35: a read operation (enumerate_profiles, enumerate_applications,
\* get_all_applications, find_application, find_profile_by_name,
\* get_shadowplay_status, check_nvapi) that starts with the session
\* established has invoked none of create-profile, create-application,
\* set-setting, save-settings and load-settings, is in none of them, and the
\* in-memory and the persisted registry are those it started with, while it
\* runs and when it has returned, whatever it returned.  Without a session the
\* only write is the load-settings of the session it creates: the persisted
\* registry is untouched and it invokes no other writing entry point.
C35_ReadsWriteNothing ==
    \A t \in Threads :
        /\ C35_Case(t) =>
              /\ \A e \in WritingEntryPoints : ~Invoked(t, e)
              /\ inflight[t] \notin WritingEntryPoints
              /\ mem = pre[t].mem
              /\ disk = pre[t].disk
        /\ cur[t].name \in ReadOperations =>
              /\ \A e \in WritingEntryPoints \ {"LoadSettings"} : ~Invoked(t, e)
              /\ inflight[t] \notin WritingEntryPoints \ {"LoadSettings"}
              /\ disk = pre[t].disk
              /\ mem \in {pre[t].mem, disk}

\* get_all_applications returned the applications while the in-memory registry
\* holds a write that is not saved: both registries are as they were.
C35_Witness ==
    \E t \in Threads :
        /\ C35_Case(t) /\ Finished(t, "get_all_applications") /\ ret[t].ok
        /\ ret[t].val # <<>>
        /\ mem # disk
        /\ mem = pre[t].mem /\ disk = pre[t].disk

\* A read operation returned an error.
C35_WitnessError ==
    \E t \in Threads :
        /\ C35_Case(t) /\ Finished(t, "get_shadowplay_status") /\ ~ret[t].ok
        /\ mem # disk

\* find_profile_by_name answered that there is no such profile.
C35_WitnessFind ==
    \E t \in Threads :
        /\ C35_Case(t) /\ Finished(t, "find_profile_by_name")
        /\ IsErr(ret[t], "ProfileNotFound")
        /\ mem # disk

\* check_nvapi returned success with a session established.
C35_WitnessCheck ==
    \E t \in Threads :
        /\ C35_Case(t) /\ Finished(t, "check_nvapi") /\ ret[t].ok
        /\ log[t] = <<>>

=============================================================================
